---- MODULE Spec2Model ----
(***************************************************************************)
(* A model of the fantoccini WebDriver client (src/src/lib.rs).            *)
(*                                                                         *)
(* The client is a synchronous program: every operation is a sequence of   *)
(* HTTP exchanges with the WebDriver server.  The model has one action per *)
(* exchange of an operation; the server's reaction (transport failure,     *)
(* status, content type, body) is the nondeterministic input of the        *)
(* action, and the rest of the action is the client code that runs on that *)
(* reaction until the next exchange or the operation's return.             *)
(***************************************************************************)
EXTENDS Integers, Sequences, FiniteSets, TLC

(***************************************************************************)
(* Strings.  A string is a sequence of text chunks, so that starts_with    *)
(* and contains are computed and a URL can be split into its segments.     *)
(***************************************************************************)
starts_with(s, p) ==
    /\ Len(p) <= Len(s)
    /\ SubSeq(s, 1, Len(p)) = p

contains(s, p) ==
    \E i \in 0..(Len(s) - Len(p)) : SubSeq(s, i + 1, i + Len(p)) = p

MissingCommandParameter == <<"Missing Command Parameter">>

CannotFindDict == <<"cannot find dict 'desiredCapabilities'">>

(***************************************************************************)
(* JSON value tree (rustc_serialize::json::Json).  An object is a function *)
(* from its keys to values, an array a sequence, a string a chunk sequence.*)
(***************************************************************************)
JNull == [t |-> "null"]

JBool(b) == [t |-> "bool", v |-> b]

JU64(n) == [t |-> "u64", v |-> n]

JI64(n) == [t |-> "i64", v |-> n]

JF64(n) == [t |-> "f64", v |-> n]

JStr(s) == [t |-> "str", v |-> s]

JArr(a) == [t |-> "arr", v |-> a]

JObj(o) == [t |-> "obj", v |-> o]

NoKeys == [k \in {} |-> JNull]

is_null(j) == j.t = "null"

is_string(j) == j.t = "str"

is_object(j) == j.t = "obj"

is_array(j) == j.t = "arr"

contains_key(o, key) == key \in DOMAIN o

\* BTreeMap::remove: the map without the key
remove(o, key) == [k \in (DOMAIN o) \ {key} |-> o[k]]

\* BTreeMap::insert: the map with the key bound to the value
insert(o, key, val) == [k \in (DOMAIN o) \cup {key} |-> IF k = key THEN val ELSE o[k]]

(***************************************************************************)
(* Results.  A call returns Ok(v), returns Err(e), or panics (the thread   *)
(* unwinds: expect, unwrap, unreachable!, unimplemented!, panic!).         *)
(***************************************************************************)
Ok(v) == [k |-> "Ok", v |-> v]

Err(e) == [k |-> "Err", v |-> e]

Panic == [k |-> "Panic"]

Pending == [k |-> "Pending"]

is_ok(r) == r.k = "Ok"

is_err(r) == r.k = "Err"

\* error::CmdError and error::NewSessionError values, as constructed in lib.rs
Standard(error, message) ==
    [kind |-> "Standard", v |-> [error |-> error, message |-> message]]

NotJson(s) == [kind |-> "NotJson", v |-> s]

NotW3C(j) == [kind |-> "NotW3C", v |-> j]

SessionNotCreated(e) == [kind |-> "SessionNotCreated", v |-> e.v]

BadWebdriverUrl == [kind |-> "BadWebdriverUrl", v |-> <<"relative URL without a base">>]

\* the conversions of `?`: hyper::Error, io::Error, url::ParseError, json::ParserError
Failed == [kind |-> "Failed", v |-> <<"connection refused">>]

Lost == [kind |-> "Lost", v |-> <<"unexpected eof">>]

BadUrl == [kind |-> "BadUrl", v |-> <<"relative URL without a base">>]

JsonError == [kind |-> "Json", v |-> <<"syntax error">>]

(***************************************************************************)
(* URLs (hyper::Url).  A URL has a host and a non-empty path of segments;  *)
(* its text is "http://", the host, then the segments.                     *)
(***************************************************************************)
Scheme == "http://"

UrlToString(u) == <<Scheme, u.host>> \o u.path

\* Url::parse: only an absolute URL with a host parses
UrlParse(s) ==
    IF Len(s) >= 2 /\ s[1] = Scheme
    THEN Ok([host |-> s[2],
             path |-> IF Len(s) = 2 THEN <<"">> ELSE SubSeq(s, 3, Len(s))])
    ELSE Err(BadUrl)

\* Url::join: an absolute reference replaces the base, a relative one
\* replaces the last segment of the base's path
UrlJoin(base, s) ==
    IF Len(s) >= 1 /\ s[1] = Scheme
    THEN UrlParse(s)
    ELSE IF s = <<>>
    THEN Ok(base)
    ELSE Ok([host |-> base.host,
             path |-> SubSeq(base.path, 1, Len(base.path) - 1) \o s])

(***************************************************************************)
(* Commands (webdriver::command::WebDriverCommand) and the client's fields.*)
(***************************************************************************)
None == [some |-> FALSE]

Some(x) == [some |-> TRUE, v |-> x]

NewSession(params) == [c |-> "NewSession", params |-> params]

DeleteSession == [c |-> "DeleteSession"]

Get(url) == [c |-> "Get", url |-> url]

GetCurrentUrl == [c |-> "GetCurrentUrl"]

GetCookies == [c |-> "GetCookies"]

GetPageSource == [c |-> "GetPageSource"]

FindElement(loc) == [c |-> "FindElement", loc |-> loc]

FindElementElement(parent, loc) == [c |-> "FindElementElement", e |-> parent, loc |-> loc]

ExecuteScript(script, args) == [c |-> "ExecuteScript", script |-> script, args |-> args]

GetElementProperty(e, name) == [c |-> "GetElementProperty", e |-> e, name |-> name]

GetElementAttribute(e, name) == [c |-> "GetElementAttribute", e |-> e, name |-> name]

ElementClick(e) == [c |-> "ElementClick", e |-> e]

GetElementText(e) == [c |-> "GetElementText", e |-> e]

ElementSendKeys(e, keys) == [c |-> "ElementSendKeys", e |-> e, keys |-> keys]

\* a command that endpoint_for has no arm for
GetTitle == [c |-> "GetTitle"]

\* webdriver::common::ELEMENT_KEY, the key of a serialized element
ELEMENT_KEY == "element-6066-11e4-a52e-4f735466cecf"

\* WebElement::to_json
WebElementJson(e) == JObj([k \in {ELEMENT_KEY} |-> JStr(e)])

\* Client::mklocator, and the locators of by_link_text and by_xpath
mklocator(selector) == [using |-> "css selector", value |-> selector]

LinkText(text) == [using |-> "link text", value |-> text]

XPath(xpath) == [using |-> "xpath", value |-> xpath]

\* LocatorParameters::to_json
LocatorJson(loc) == JObj([using |-> JStr(<<loc.using>>), value |-> JStr(loc.value)])

\* JavascriptCommandParameters::to_json
ScriptJson(script, args) == JObj([script |-> JStr(script), args |-> JArr(args)])

\* the capabilities built by Client::new: pageLoadStrategy = normal
cap == [k \in {"pageLoadStrategy"} |-> JStr(<<"normal">>)]

\* SpecNewSessionParameters { alwaysMatch: cap, firstMatch: [] } as JSON
SpecParamsJson ==
    JObj([capabilities |-> JObj([alwaysMatch |-> JObj(cap), firstMatch |-> JArr(<<>>)])])

\* LegacyNewSessionParameters { required: cap, desired: {} } as JSON
LegacyParamsJson ==
    JObj([desiredCapabilities |-> JObj(NoKeys), requiredCapabilities |-> JObj(cap)])

\* variant: the path embeds the id of the server's first session, not the
\* id the client holds
endpoint_for_first_session(sess, leg, cmd) ==
    IF cmd.c = "NewSession" THEN Ok(<<"session">>)
    ELSE IF ~sess.some THEN Panic
    ELSE IF cmd.c = "DeleteSession" THEN Ok(<<"session">> \o <<"s1">>)
    ELSE LET base == <<"session">> \o <<"s1">>
         IN  CASE cmd.c \in {"Get", "GetCurrentUrl"} -> Ok(base \o <<"url">>)
               [] cmd.c = "GetPageSource" -> Ok(base \o <<"source">>)
               [] cmd.c = "FindElement" -> Ok(base \o <<"element">>)
               [] cmd.c = "GetCookies" -> Ok(base \o <<"cookie">>)
               [] cmd.c = "ExecuteScript" /\ leg -> Ok(base \o <<"execute">>)
               [] cmd.c = "ExecuteScript" /\ ~leg -> Ok(base \o <<"execute", "sync">>)
               [] cmd.c = "GetElementProperty" ->
                    Ok(base \o <<"element">> \o cmd.e \o <<"property">> \o cmd.name)
               [] cmd.c = "GetElementAttribute" ->
                    Ok(base \o <<"element">> \o cmd.e \o <<"attribute">> \o cmd.name)
               [] cmd.c = "FindElementElement" ->
                    Ok(base \o <<"element">> \o cmd.e \o <<"element">>)
               [] cmd.c = "ElementClick" -> Ok(base \o <<"element">> \o cmd.e \o <<"click">>)
               [] cmd.c = "GetElementText" -> Ok(base \o <<"element">> \o cmd.e \o <<"text">>)
               [] cmd.c = "ElementSendKeys" -> Ok(base \o <<"element">> \o cmd.e \o <<"value">>)
               [] OTHER -> Panic

\* Client::endpoint_for: the path of the command's URL under the server
\* base, or a panic when a session command is routed with no session held
endpoint_for(sess, leg, cmd) ==
    IF cmd.c = "NewSession" THEN Ok(<<"session">>)
    ELSE IF ~sess.some THEN Panic
    ELSE IF cmd.c = "DeleteSession" THEN Ok(<<"session">> \o sess.v)
    ELSE LET base == <<"session">> \o sess.v
         IN  CASE cmd.c \in {"Get", "GetCurrentUrl"} -> Ok(base \o <<"url">>)
               [] cmd.c = "GetPageSource" -> Ok(base \o <<"source">>)
               [] cmd.c = "FindElement" -> Ok(base \o <<"element">>)
               [] cmd.c = "GetCookies" -> Ok(base \o <<"cookie">>)
               [] cmd.c = "ExecuteScript" /\ leg -> Ok(base \o <<"execute">>)
               [] cmd.c = "ExecuteScript" /\ ~leg -> Ok(base \o <<"execute", "sync">>)
               [] cmd.c = "GetElementProperty" ->
                    Ok(base \o <<"element">> \o cmd.e \o <<"property">> \o cmd.name)
               [] cmd.c = "GetElementAttribute" ->
                    Ok(base \o <<"element">> \o cmd.e \o <<"attribute">> \o cmd.name)
               [] cmd.c = "FindElementElement" ->
                    Ok(base \o <<"element">> \o cmd.e \o <<"element">>)
               [] cmd.c = "ElementClick" -> Ok(base \o <<"element">> \o cmd.e \o <<"click">>)
               [] cmd.c = "GetElementText" -> Ok(base \o <<"element">> \o cmd.e \o <<"text">>)
               [] cmd.c = "ElementSendKeys" -> Ok(base \o <<"element">> \o cmd.e \o <<"value">>)
               [] OTHER -> Panic

\* variant: no arm for ElementClick, which falls to the GET default
method_for_click_default(cmd) ==
    CASE cmd.c \in {"NewSession", "Get", "FindElement", "FindElementElement",
                    "ExecuteScript", "ElementSendKeys"} -> "POST"
      [] cmd.c = "DeleteSession" -> "DELETE"
      [] OTHER -> "GET"

\* Client::issue_wd_cmd, first half: method and body of the request
method_for(cmd) ==
    CASE cmd.c \in {"NewSession", "Get", "FindElement", "FindElementElement",
                    "ExecuteScript", "ElementSendKeys", "ElementClick"} -> "POST"
      [] cmd.c = "DeleteSession" -> "DELETE"
      [] OTHER -> "GET"

body_for(cmd) ==
    CASE cmd.c = "NewSession" ->
            Some(IF cmd.params = "Spec" THEN SpecParamsJson ELSE LegacyParamsJson)
      [] cmd.c = "Get" -> Some(JObj([url |-> JStr(cmd.url)]))
      [] cmd.c \in {"FindElement", "FindElementElement"} -> Some(LocatorJson(cmd.loc))
      [] cmd.c = "ExecuteScript" -> Some(ScriptJson(cmd.script, cmd.args))
      [] cmd.c = "ElementSendKeys" -> Some(JObj([value |-> JArr(cmd.keys)]))
      [] cmd.c = "ElementClick" -> Some(JObj(NoKeys))
      [] OTHER -> None

\* the User-Agent header of the request: req.header(UserAgent(s)) puts it in
\* the builder's header map; for a command with a body, req.headers(headers)
\* then puts a map that holds the content type alone in the place of the
\* builder's map (hyper 0.10 RequestBuilder::headers: self.headers =
\* Some(headers)), and the User-Agent is gone
user_agent_for(agent, body) == IF body.some THEN None ELSE agent

\* the request that issue_wd_cmd sends for a command
request_for(sess, leg, agent, cmd) ==
    [method |-> method_for(cmd),
     path   |-> endpoint_for(sess, leg, cmd).v,
     body   |-> body_for(cmd),
     ua     |-> user_agent_for(agent, body_for(cmd))]

(***************************************************************************)
(* Responses.  The transport either fails or delivers a status, a content  *)
(* type ("json", another type, or none) and a body; a body is text that    *)
(* parses as JSON, text that does not, or a stream that breaks when read.  *)
(***************************************************************************)
BJson(j) == [b |-> "json", v |-> j]

BText(s) == [b |-> "text", v |-> s]

BBroken == [b |-> "broken"]

TransportFailure == [transport |-> "fail"]

Http(status, ctype, body) ==
    [transport |-> "ok", status |-> status, ctype |-> ctype, body |-> body]

is_success(status) == status >= 200 /\ status <= 299

\* the (error code, ErrorStatus) arms of the match on res.status
BadRequest ==
    { <<"element click intercepted", "ElementClickIntercepted">>,
      <<"element not selectable", "ElementNotSelectable">>,
      <<"element not interactable", "ElementNotInteractable">>,
      <<"insecure certificate", "InsecureCertificate">>,
      <<"invalid argument", "InvalidArgument">>,
      <<"invalid cookie domain", "InvalidCookieDomain">>,
      <<"invalid coordinates", "InvalidCoordinates">>,
      <<"invalid element state", "InvalidElementState">>,
      <<"invalid selector", "InvalidSelector">>,
      <<"no such alert", "NoSuchAlert">>,
      <<"no such frame", "NoSuchFrame">>,
      <<"no such window", "NoSuchWindow">>,
      <<"stale element reference", "StaleElementReference">> }

\* variant: two arms of the 404 match exchanged
NotFound_swapped ==
    { <<"unknown command", "UnknownCommand">>,
      <<"no such cookie", "NoSuchElement">>,
      <<"invalid session id", "InvalidSessionId">>,
      <<"no such element", "NoSuchCookie">> }

NotFound ==
    { <<"unknown command", "UnknownCommand">>,
      <<"no such cookie", "NoSuchCookie">>,
      <<"invalid session id", "InvalidSessionId">>,
      <<"no such element", "NoSuchElement">> }

InternalServerError ==
    { <<"javascript error", "JavascriptError">>,
      <<"move target out of bounds", "MoveTargetOutOfBounds">>,
      <<"session not created", "SessionNotCreated">>,
      <<"unable to set cookie", "UnableToSetCookie">>,
      <<"unable to capture screen", "UnableToCaptureScreen">>,
      <<"unexpected alert open", "UnexpectedAlertOpen">>,
      <<"unknown error", "UnknownError">>,
      <<"unsupported operation", "UnsupportedOperation">> }

RequestTimeout ==
    { <<"timeout", "Timeout">>,
      <<"script timeout", "ScriptTimeout">> }

MethodNotAllowed ==
    { <<"unknown method", "UnknownMethod">> }

\* one inner match: the arm of the error code, or unreachable!()
match_error(arms, error) ==
    IF \E a \in arms : <<a[1]>> = error
    THEN Ok((CHOOSE a \in arms : <<a[1]>> = error)[2])
    ELSE Panic

\* the outer match on res.status
error_status(status, error) ==
    CASE status = 400 -> match_error(BadRequest, error)
      [] status = 404 -> match_error(NotFound, error)
      [] status = 500 -> match_error(InternalServerError, error)
      [] status = 408 -> match_error(RequestTimeout, error)
      [] status = 405 -> match_error(MethodNotAllowed, error)
      [] OTHER -> Panic

\* variant: an object without "value" is taken for the value itself
unwrap_value_or_self(leg, is_new_session, j) ==
    IF is_object(j)
    THEN IF ~leg \/ ~is_new_session
         THEN IF contains_key(j.v, "value") THEN Ok(j.v["value"]) ELSE Ok(j)
         ELSE Ok(j)
    ELSE Err(NotW3C(j))

\* the envelope step: the top-level object, or what is under "value"
unwrap_value(leg, is_new_session, j) ==
    IF is_object(j)
    THEN IF ~leg \/ ~is_new_session
         THEN IF contains_key(j.v, "value") THEN Ok(j.v["value"]) ELSE Err(NotW3C(j))
         ELSE Ok(j)
    ELSE Err(NotW3C(j))

\* variant: the "screen" field is left in the object
send_an_error_keeps_screen(status, body) ==
    IF ~is_object(body) THEN Err(NotW3C(body))
    ELSE LET o == body.v
         IN  IF \/ ~contains_key(o, "error")
                \/ ~contains_key(o, "message")
                \/ ~is_string(o["error"])
                \/ ~is_string(o["message"])
             THEN Err(NotW3C(JObj(o)))
             ELSE LET error == error_status(status, o["error"].v)
                  IN  IF error.k = "Panic" THEN Panic
                      ELSE Err(Standard(error.v, o["message"].v))

\* the failure-status step: strip "screen", check the envelope, classify
send_an_error(status, body) ==
    IF ~is_object(body) THEN Err(NotW3C(body))
    ELSE LET o == remove(body.v, "screen")
         IN  IF \/ ~contains_key(o, "error")
                \/ ~contains_key(o, "message")
                \/ ~is_string(o["error"])
                \/ ~is_string(o["message"])
             THEN Err(NotW3C(JObj(o)))
             ELSE LET error == error_status(status, o["error"].v)
                  IN  IF error.k = "Panic" THEN Panic
                      ELSE Err(Standard(error.v, o["message"].v))

\* Client::issue_wd_cmd, second half: the result for the server's reaction
issue_wd_cmd(leg, cmd, res) ==
    IF res.transport = "fail" THEN Err(Failed)
    ELSE IF res.ctype = "none" THEN Panic
    ELSE IF res.ctype # "json"
    THEN IF res.body.b = "broken" THEN Err(Lost) ELSE Err(NotJson(res.body.v))
    ELSE IF res.body.b # "json" THEN Err(JsonError)
    ELSE LET body == unwrap_value(leg, cmd.c = "NewSession", res.body.v)
         IN  IF is_err(body) THEN body
             ELSE IF is_success(res.status) THEN body
             ELSE send_an_error(res.status, body.v)

(***************************************************************************)
(* Client::init: one session-creation attempt.  The result, and the        *)
(* fields of the client after it.                                          *)
(***************************************************************************)
\* variant: no arm for ErrorStatus::SessionNotCreated
init_result_no_arm(r) ==
    IF r.k = "Panic" THEN Panic
    ELSE IF is_ok(r)
    THEN IF is_object(r.v) /\ contains_key(r.v.v, "sessionId")
            /\ is_string(r.v.v["sessionId"])
         THEN Ok(r.v.v["sessionId"].v)
         ELSE Err(NotW3C(r.v))
    ELSE CASE r.v.kind = "NotW3C" -> Err(NotW3C(r.v.v))
           [] r.v.kind = "NotJson" -> Err(NotW3C(JStr(r.v.v)))
           [] OTHER -> Panic

\* the match of Client::init on the result of the NewSession command
init_result(r) ==
    IF r.k = "Panic" THEN Panic
    ELSE IF is_ok(r)
    THEN IF is_object(r.v)
         THEN IF contains_key(r.v.v, "sessionId")
              THEN LET session_id == r.v.v["sessionId"]
                       v == remove(r.v.v, "sessionId")
                   IN  IF is_string(session_id) THEN Ok(session_id.v)
                       ELSE Err(NotW3C(JObj(insert(v, "sessionId", session_id))))
              ELSE Err(NotW3C(r.v))
         ELSE Err(NotW3C(r.v))
    ELSE CASE r.v.kind = "NotW3C" -> Err(NotW3C(r.v.v))
           [] r.v.kind = "NotJson" -> Err(NotW3C(JStr(r.v.v)))
           [] r.v.kind = "Standard" /\ r.v.v.error = "SessionNotCreated" ->
                Err(SessionNotCreated(r.v))
           [] OTHER -> Panic

\* variant: the Legacy parameters do not switch the client to the legacy
\* dialect
init_keeps_dialect(leg, params, res) ==
    LET legacy1 == leg
        r == issue_wd_cmd(legacy1, NewSession(params), res)
        out == init_result(r)
    IN  [legacy  |-> legacy1,
         wd      |-> r,
         result  |-> IF is_ok(out) THEN Ok(JNull) ELSE out,
         session |-> IF is_ok(out) THEN Some(out.v) ELSE None]

init(leg, params, res) ==
    LET legacy1 == leg \/ params = "Legacy"
        r == issue_wd_cmd(legacy1, NewSession(params), res)
        out == init_result(r)
    IN  [legacy  |-> legacy1,
         wd      |-> r,
         result  |-> IF is_ok(out) THEN Ok(JNull) ELSE out,
         session |-> IF is_ok(out) THEN Some(out.v) ELSE None]

\* variant: the chromedriver arm tests the start of the message
legacy_shape_prefix(json) ==
    \/ is_string(json) /\ starts_with(json.v, MissingCommandParameter)
    \/ /\ is_object(json)
       /\ contains_key(json.v, "message")
       /\ IF is_string(json.v["message"])
          THEN starts_with(json.v["message"].v, CannotFindDict)
          ELSE FALSE

\* variant: the chromedriver arm accepts any object that has a "message"
legacy_shape_any_message(json) ==
    \/ is_string(json) /\ starts_with(json.v, MissingCommandParameter)
    \/ is_object(json) /\ contains_key(json.v, "message")

\* the match of Client::new on the NotW3C payload of the spec attempt
legacy_shape(json) ==
    \/ is_string(json) /\ starts_with(json.v, MissingCommandParameter)
    \/ /\ is_object(json)
       /\ contains_key(json.v, "message")
       /\ IF is_string(json.v["message"])
          THEN contains(json.v["message"].v, CannotFindDict)
          ELSE FALSE

(***************************************************************************)
(* Client::current_url and Client::goto, as functions of the reactions.    *)
(***************************************************************************)
\* current_url: the parsed URL of a string value, else NotW3C
current_url(r) ==
    IF r.k = "Panic" THEN Panic
    ELSE IF is_err(r) THEN r
    ELSE IF is_string(r.v) THEN UrlParse(r.v.v)
    ELSE Err(NotW3C(r.v))

\* variant: the URL is parsed as it is given, not joined to the current one
goto_join_unresolved(r, url) ==
    LET cur == current_url(r)
    IN  IF is_ok(cur) THEN UrlParse(url) ELSE cur

\* goto, first line: self.current_url()?.join(url)?
goto_join(r, url) ==
    LET cur == current_url(r)
    IN  IF is_ok(cur) THEN UrlJoin(cur.v, url) ELSE cur

\* goto, the rest: the Navigate command's result, its value dropped
goto_result(r) == IF is_ok(r) THEN Ok(JNull) ELSE r

(***************************************************************************)
(* Element lookups and the operations of Element and Form, as functions of *)
(* the results of their commands.                                          *)
(***************************************************************************)
\* variant: the element id is taken from under either dialect's key
parse_lookup_either_key(leg, res) ==
    IF res.k = "Panic" THEN Panic
    ELSE IF is_err(res) THEN res
    ELSE IF ~is_object(res.v) THEN Err(NotW3C(res.v))
    ELSE LET key == IF contains_key(res.v.v, "ELEMENT") THEN "ELEMENT" ELSE ELEMENT_KEY
         IN  IF ~contains_key(res.v.v, key) THEN Err(NotW3C(JObj(res.v.v)))
             ELSE LET v == res.v.v[key]
                  IN  IF is_string(v) THEN Ok(v.v)
                      ELSE Err(NotW3C(JObj(insert(remove(res.v.v, key), key, v))))

\* variant: an id that is not a string is not put back into the object
parse_lookup_drops_bad_id(leg, res) ==
    IF res.k = "Panic" THEN Panic
    ELSE IF is_err(res) THEN res
    ELSE IF ~is_object(res.v) THEN Err(NotW3C(res.v))
    ELSE LET key == IF leg THEN "ELEMENT" ELSE ELEMENT_KEY
         IN  IF ~contains_key(res.v.v, key) THEN Err(NotW3C(JObj(res.v.v)))
             ELSE LET v == res.v.v[key]
                  IN  IF is_string(v) THEN Ok(v.v)
                      ELSE Err(NotW3C(JObj(remove(res.v.v, key))))

\* Client::parse_lookup: the element id under the dialect's key
parse_lookup(leg, res) ==
    IF res.k = "Panic" THEN Panic
    ELSE IF is_err(res) THEN res
    ELSE IF ~is_object(res.v) THEN Err(NotW3C(res.v))
    ELSE LET key == IF leg THEN "ELEMENT" ELSE ELEMENT_KEY
         IN  IF ~contains_key(res.v.v, key) THEN Err(NotW3C(JObj(res.v.v)))
             ELSE LET v == res.v.v[key]
                  IN  IF is_string(v) THEN Ok(v.v)
                      ELSE Err(NotW3C(JObj(insert(remove(res.v.v, key), key, v))))

\* Client::fixup_elements: under the legacy dialect, an object argument's
\* ELEMENT_KEY entry moves under "ELEMENT"
fixup_elements(leg, args) ==
    IF leg
    THEN [i \in 1..Len(args) |->
            IF is_object(args[i])
            THEN IF contains_key(args[i].v, ELEMENT_KEY)
                 THEN JObj(insert(remove(args[i].v, ELEMENT_KEY), "ELEMENT",
                                  args[i].v[ELEMENT_KEY]))
                 ELSE args[i]
            ELSE args[i]]
    ELSE args

\* as_object().map(|o| o.is_empty()).unwrap_or(false)
is_empty_object(j) == IF is_object(j) THEN DOMAIN j.v = {} ELSE FALSE

\* variant: no arm for Json::Null, which falls to the error arm
attr_result_no_null_arm(r) ==
    IF r.k = "Panic" THEN Panic
    ELSE IF is_err(r) THEN r
    ELSE IF is_string(r.v) THEN Ok(Some(r.v.v))
    ELSE Err(NotW3C(r.v))

\* Element::attr: the match on the command's value
attr_result(r) ==
    IF r.k = "Panic" THEN Panic
    ELSE IF is_err(r) THEN r
    ELSE IF is_string(r.v) THEN Ok(Some(r.v.v))
    ELSE IF is_null(r.v) THEN Ok(None)
    ELSE Err(NotW3C(r.v))

\* Element::prop: the match on the command's value
prop_result(r) ==
    IF r.k = "Panic" THEN Panic
    ELSE IF is_err(r) THEN r
    ELSE IF is_string(r.v) THEN Ok(Some(r.v.v))
    ELSE IF is_null(r.v) THEN Ok(None)
    ELSE Err(NotW3C(r.v))

\* Element::html: the property's name, and `.map(|v| v.unwrap())` on the
\* result of Element::prop
html_prop(inner) == IF inner THEN <<"innerHTML">> ELSE <<"outerHTML">>

html_result(r) ==
    IF r.k = "Panic" THEN Panic
    ELSE IF is_err(r) THEN r
    ELSE IF r.v.some THEN Ok(r.v.v)
    ELSE Panic

\* Element::click, after the command
click_result(r) ==
    IF r.k = "Panic" THEN Panic
    ELSE IF is_err(r) THEN r
    ELSE IF is_null(r.v) THEN Ok(JNull)
    ELSE IF is_empty_object(r.v) THEN Ok(JNull)
    ELSE Err(NotW3C(r.v))

CannotFollow == <<"cannot follow element without href attribute">>

\* variant: no arm for Json::Null, which falls to the malformed arm
follow_href_no_null_arm(r) ==
    IF r.k = "Panic" THEN Panic
    ELSE IF is_err(r) THEN r
    ELSE IF is_string(r.v) THEN Ok(r.v.v)
    ELSE Err(NotW3C(r.v))

\* Element::follow: the match on the value of the href attribute
follow_href(r) ==
    IF r.k = "Panic" THEN Panic
    ELSE IF is_err(r) THEN r
    ELSE IF is_string(r.v) THEN Ok(r.v.v)
    ELSE IF is_null(r.v) THEN Err(Standard("InvalidArgument", CannotFollow))
    ELSE Err(NotW3C(r.v))

\* Element::follow: self.c.current_url()? and url.join(&href)?
follow_join(r, href) ==
    LET url == current_url(r)
    IN  IF is_ok(url) THEN UrlJoin(url.v, href) ELSE url

\* Form::set_by_name: the locator of the field, the script and its arguments
field_locator(field) == mklocator(<<"input[name='">> \o field \o <<"']">>)

SetValueScript == <<"arguments[0].value = arguments[1]">>

set_by_name_args(leg, field, value) ==
    fixup_elements(leg, <<WebElementJson(field), JStr(value)>>)

\* variant: an empty object is taken for a success, as Element::click does
set_by_name_result_accepts_empty_object(r) ==
    IF r.k = "Panic" THEN Panic
    ELSE IF is_err(r) THEN r
    ELSE IF is_null(r.v) \/ is_empty_object(r.v) THEN Ok(JNull)
    ELSE Err(NotW3C(r.v))

\* Form::set_by_name, after the script
set_by_name_result(r) ==
    IF r.k = "Panic" THEN Panic
    ELSE IF is_err(r) THEN r
    ELSE IF is_null(r.v) THEN Ok(JNull)
    ELSE Err(NotW3C(r.v))

\* Form::submit: the selector of the first submit button
SubmitButton == <<"input[type=submit],button[type=submit]">>

\* str::replace on a string of one-character chunks
RECURSIVE replace_char(_, _, _)
replace_char(s, from, to) ==
    IF s = <<>> THEN <<>>
    ELSE (IF s[1] = from THEN to ELSE <<s[1]>>) \o replace_char(Tail(s), from, to)

\* variant: the quotes are escaped before the backslashes are doubled
submit_using_selector_quotes_first(button_label) ==
    LET escaped == replace_char(replace_char(button_label, "\"", <<"\\", "\"">>),
                                "\\", <<"\\", "\\">>)
    IN  <<"input[type=submit][value=\"">> \o escaped
          \o <<"\" i],button[type=submit][value=\"">> \o escaped \o <<"\" i]">>

\* Form::submit_using: the selector for a button label
submit_using_selector(button_label) ==
    LET escaped == replace_char(replace_char(button_label, "\\", <<"\\", "\\">>),
                                "\"", <<"\\", "\"">>)
    IN  <<"input[type=submit][value=\"">> \o escaped
          \o <<"\" i],button[type=submit][value=\"">> \o escaped \o <<"\" i]">>

\* Form::submit_with, after the click
submit_with_result(r) ==
    IF r.k = "Panic" THEN Panic
    ELSE IF is_err(r) THEN r
    ELSE IF is_null(r.v) THEN Ok(JNull)
    ELSE IF is_empty_object(r.v) THEN Ok(JNull)
    ELSE Err(NotW3C(r.v))

SubmitScript == <<"arguments[0].submit()">>

\* Form::submit_direct: the arguments of the script
submit_direct_args(leg, f) == fixup_elements(leg, <<WebElementJson(f)>>)

\* variant: a non-empty object is taken for a success as well
submit_direct_result_any_object(r) ==
    IF r.k = "Panic" THEN Panic
    ELSE IF is_err(r) THEN r
    ELSE IF is_null(r.v) THEN Ok(JNull)
    ELSE IF is_object(r.v) THEN Ok(JNull)
    ELSE Err(NotW3C(r.v))

\* Form::submit_direct, after the script
submit_direct_result(r) ==
    IF r.k = "Panic" THEN Panic
    ELSE IF is_err(r) THEN r
    ELSE IF is_null(r.v) THEN Ok(JNull)
    ELSE IF is_empty_object(r.v) THEN Ok(JNull)
    ELSE Err(NotW3C(r.v))

InjectScript ==
    <<"var h = document.createElement('input');",
      "h.setAttribute('type', 'hidden');",
      "h.setAttribute('name', arguments[1]);",
      "h.value = arguments[2];",
      "arguments[0].appendChild(h)">>

\* Form::submit_sneaky: the arguments of the injection script
submit_sneaky_args(f, field, value) == <<WebElementJson(f), JStr(field), JStr(value)>>

\* variant: any value of the injection script is taken for a success
submit_sneaky_result_any_value(r) ==
    IF r.k = "Panic" THEN Panic
    ELSE IF is_err(r) THEN r
    ELSE Ok(JNull)

\* Form::submit_sneaky, after the injection script: Ok to go on to
\* submit_direct, or the error
submit_sneaky_result(r) ==
    IF r.k = "Panic" THEN Panic
    ELSE IF is_err(r) THEN r
    ELSE IF is_null(r.v) THEN Ok(JNull)
    ELSE IF is_empty_object(r.v) THEN Ok(JNull)
    ELSE Err(NotW3C(r.v))

(***************************************************************************)
(* Client::wait_for and the closure of Client::wait_for_navigation.        *)
(***************************************************************************)
\* variant: the loop condition does not look at the predicate's answer
keep_waiting_once(is_ready) == FALSE

\* the loop condition of wait_for: `while !is_ready(self)`
keep_waiting(is_ready) == ~is_ready

\* the closure of wait_for_navigation on the result of its current_url
\* call: its return value and the error it records
navigated(current, r) ==
    IF r.k = "Panic" THEN Panic
    ELSE IF is_err(r) THEN Ok([is_ready |-> TRUE, err |-> Some(r.v)])
    ELSE IF r.v = current THEN Ok([is_ready |-> FALSE, err |-> None])
    ELSE Ok([is_ready |-> TRUE, err |-> None])

\* variant: the error that the closure recorded is not looked at
wait_for_navigation_result_drops_err(err) == Ok(JNull)

\* wait_for_navigation, after the loop
wait_for_navigation_result(err) == IF err.some THEN Err(err.v) ELSE Ok(JNull)

(***************************************************************************)
(* Client::raw_client_for, the part after the navigations: the cookie jar  *)
(* and the request, as a function of the GetCookies value.                 *)
(***************************************************************************)
\* an unsigned 64-bit value: pow64 * 2^64 + plus
U64(n) == [pow64 |-> 0, plus |-> n]

\* `secs as u64` for an i64: a negative value wraps around 2^64
i64_as_u64(n) == IF n >= 0 THEN U64(n) ELSE [pow64 |-> 1, plus |-> n]

\* `secs as u64` for a non-negative f64 given in tenths: truncation
f64_as_u64(tenths) == U64(tenths \div 10)

\* the closure val_of: Nullable::Null for an absent or null key
val_of(cookie, key) ==
    IF ~contains_key(cookie, key) THEN None
    ELSE IF is_null(cookie[key]) THEN None
    ELSE Some(cookie[key])

\* path and domain: the string of a present value, else unimplemented!()
string_of(n) ==
    IF ~n.some THEN Ok(None)
    ELSE IF is_string(n.v) THEN Ok(Some(n.v.v))
    ELSE Panic

\* expiry: the Date of a present number, else unimplemented!()
date_of(n) ==
    IF ~n.some THEN Ok(None)
    ELSE CASE n.v.t = "u64" -> Ok(Some(U64(n.v.v)))
           [] n.v.t = "i64" -> Ok(Some(i64_as_u64(n.v.v)))
           [] n.v.t = "f64" -> Ok(Some(f64_as_u64(n.v.v)))
           [] OTHER -> Panic

\* cookie.get(key).and_then(|v| v.as_boolean()).unwrap_or(false)
bool_of(cookie, key) ==
    IF contains_key(cookie, key) /\ cookie[key].t = "bool" THEN cookie[key].v ELSE FALSE

\* one iteration of the loop: Err for a break with all_ok = false, Panic, or
\* the cookie that is formatted and pushed on the jar
jar_entry(cookie) ==
    IF ~is_object(cookie) THEN Err(cookie)
    ELSE LET c == cookie.v
         IN  IF ~contains_key(c, "name") \/ ~contains_key(c, "value") THEN Err(cookie)
             ELSE IF ~is_string(c["name"]) \/ ~is_string(c["value"]) THEN Err(cookie)
             ELSE LET path == string_of(val_of(c, "path"))
                      domain == string_of(val_of(c, "domain"))
                      expiry == date_of(val_of(c, "expiry"))
                  IN  IF path.k = "Panic" \/ domain.k = "Panic" \/ expiry.k = "Panic"
                      THEN Panic
                      ELSE Ok([name     |-> c["name"].v,
                               value    |-> c["value"].v,
                               path     |-> path.v,
                               domain   |-> domain.v,
                               expiry   |-> expiry.v,
                               secure   |-> bool_of(c, "secure"),
                               httpOnly |-> bool_of(c, "httpOnly")])

\* the loop over the cookies from index i on, with the jar built so far
RECURSIVE jar_loop(_, _, _)
jar_loop(cookies, i, jar) ==
    IF i > Len(cookies) THEN Ok(jar)
    ELSE LET e == jar_entry(cookies[i])
         IN  IF e.k = "Panic" THEN Panic
             ELSE IF is_err(e) THEN Err(NotW3C(JArr(cookies)))
             ELSE jar_loop(cookies, i + 1, Append(jar, e.v))

\* the unsent request, the NotW3C error, or a panic
raw_request(method, url, cookies, agent) ==
    IF ~is_array(cookies) THEN Err(NotW3C(cookies))
    ELSE LET jar == jar_loop(cookies.v, 1, <<>>)
         IN  IF is_ok(jar)
             THEN Ok([method |-> method, url |-> url, cookie |-> jar.v, ua |-> agent])
             ELSE jar

(***************************************************************************)
(* The server's reactions that the model enumerates.                       *)
(***************************************************************************)
Wrapped(v) == JObj([value |-> v])

Envelope(code, msg) == JObj([error |-> JStr(<<code>>), message |-> JStr(msg)])

Msg1 == <<"it went wrong">>

Msg2 == <<"unknown error: ", "cannot find dict 'desiredCapabilities'", " (Driver info)">>

FailureStatuses == {400, 404, 405, 408, 500, 503}

AllArms ==
    BadRequest \cup NotFound \cup InternalServerError \cup RequestTimeout
        \cup MethodNotAllowed

ErrorCodes == {a[1] : a \in AllArms} \cup {"no such thing"}

\* values that are not an error envelope
NonEnvelopes ==
    { JNull,
      JStr(<<"boom">>),
      JObj([error |-> JStr(<<"unknown error">>)]),
      JObj([message |-> JStr(Msg1)]),
      JObj([error |-> JU64(13), message |-> JStr(Msg1)]),
      JObj([error |-> JStr(<<"unknown error">>), message |-> JNull]),
      JObj([screen |-> JStr(<<"iVBORw0KGgo">>), message |-> JStr(Msg1)]) }

\* reactions that make any command fail
Failures ==
    {TransportFailure}
      \cup {Http(200, "none", BText(<<"ok">>))}
      \cup {Http(s, "html", BText(<<"<html>">>)) : s \in {200, 500}}
      \cup {Http(200, "html", BBroken), Http(200, "json", BBroken),
            Http(200, "json", BText(<<"{">>))}
      \cup {Http(s, "json", BJson(j)) :
                s \in {200, 500},
                j \in {JArr(<<>>), JU64(7), JObj([status |-> JU64(0)])}}
      \cup {Http(500, "json", BJson(Wrapped(v))) : v \in NonEnvelopes}
      \cup {Http(s, "json", BJson(Wrapped(Envelope(c, Msg1)))) :
                s \in FailureStatuses, c \in ErrorCodes}
      \cup {Http(500, "json",
                 BJson(Wrapped(JObj([error   |-> JStr(<<"unknown error">>),
                                     message |-> JStr(Msg2),
                                     screen  |-> JStr(<<"iVBORw0KGgo">>)]))))}

\* a few of the failures, for the exchanges of the multi-step operations
CoreFailures ==
    { TransportFailure,
      Http(200, "none", BText(<<"ok">>)),
      Http(500, "html", BText(<<"<html>">>)),
      Http(200, "json", BText(<<"{">>)),
      Http(200, "json", BJson(JArr(<<>>))),
      Http(500, "json", BJson(Wrapped(JStr(<<"boom">>)))),
      Http(404, "json", BJson(Wrapped(Envelope("invalid session id", Msg1)))),
      Http(500, "json", BJson(Wrapped(Envelope("unknown error", Msg1)))),
      Http(500, "json", BJson(Wrapped(Envelope("no such thing", Msg1)))) }

Success(v) == Http(200, "json", BJson(Wrapped(v)))

\* reactions to GetCurrentUrl: the browser's URL, or a value that is no URL
CurrentUrlValues(at) == {JStr(UrlToString(at)), JNull, JStr(<<"not a url">>)}

MaxCookies == 2

\* cookie entries: three well-formed ones and the malformed shapes
CookieEntries ==
    { JObj([name |-> JStr(<<"sid">>), value |-> JStr(<<"1">>)]),
      JObj([name |-> JStr(<<"pref">>), value |-> JStr(<<"x">>),
            path |-> JStr(<<"/">>), domain |-> JStr(<<"site">>),
            expiry |-> JU64(100), secure |-> JBool(TRUE), httpOnly |-> JBool(FALSE)]),
      JObj([name |-> JStr(<<"CP">>), value |-> JStr(<<"H2">>),
            path |-> JNull, expiry |-> JNull]),
      JNull,
      JObj([name |-> JStr(<<"sid">>)]),
      JObj([name |-> JU64(1), value |-> JStr(<<"1">>)]),
      JObj([name |-> JStr(<<"sid">>), value |-> JStr(<<"1">>), path |-> JU64(1)]),
      JObj([name |-> JStr(<<"sid">>), value |-> JStr(<<"1">>), domain |-> JBool(TRUE)]),
      JObj([name |-> JStr(<<"sid">>), value |-> JStr(<<"1">>), expiry |-> JStr(<<"never">>)]) }

CookieLists == UNION {[1..n -> CookieEntries] : n \in 0..MaxCookies}

\* reactions to GetCookies: a list of entries, or a value that is no array
CookieValues == {JArr(cs) : cs \in CookieLists} \cup {JNull, JObj(NoKeys)}

SessionIds == {<<"s1">>, <<"s2">>}

\* values a server may put in a session-creation response
NewSessionValues ==
    {JObj([sessionId |-> JStr(id), capabilities |-> JObj(NoKeys)]) : id \in SessionIds}
      \cup { JObj([sessionId |-> JU64(1)]),
             JObj([sessionId |-> JNull, message |-> JStr(Msg2)]),
             JObj(NoKeys),
             JObj([message |-> JStr(Msg1)]),
             JObj([message |-> JStr(Msg2)]),
             JObj([message |-> JU64(33)]),
             JStr(<<"Missing Command Parameter", ": desiredCapabilities">>),
             JStr(<<"Error: ", "Missing Command Parameter">>),
             JArr(<<JStr(CannotFindDict)>>),
             JU64(33) }

\* reactions to a session-creation request: the failures, the values above
\* wrapped under "value" (spec servers) or sent as they are (legacy servers,
\* which also put "sessionId", "error" and "message" at the top level)
NewSessionResponses ==
    Failures
      \cup {Http(s, "json", BJson(Wrapped(v))) : s \in {200, 500}, v \in NewSessionValues}
      \cup {Http(s, "json", BJson(v)) : s \in {200, 500}, v \in NewSessionValues}
      \cup {Http(s, "json", BJson(Envelope(c, Msg1))) :
                s \in {400, 500}, c \in {"session not created", "unknown error"}}
      \cup {Http(200, "text", BText(<<"Missing Command Parameter", ": desiredCapabilities">>)),
            Http(200, "text", BText(<<"Error: ", "Missing Command Parameter">>))}

ElementIds == {<<"e1">>, <<"e2">>}

\* reactions to a lookup: an element in either dialect's shape, or a value
\* that is no element
LookupValues ==
    {WebElementJson(e) : e \in ElementIds}
      \cup {JObj([k \in {"ELEMENT"} |-> JStr(e)]) : e \in ElementIds}
      \cup { JNull, JObj(NoKeys), JStr(<<"e1">>),
             JObj([k \in {ELEMENT_KEY} |-> JU64(1)]),
             JObj([k \in {"ELEMENT"} |-> JNull]) }

NoSuchElement == Http(404, "json", BJson(Wrapped(Envelope("no such element", Msg1))))

LookupResponses == CoreFailures \cup {NoSuchElement} \cup {Success(v) : v \in LookupValues}

\* reactions to a click or a script: nothing, geckodriver's {}, or more
UnitValues ==
    {JNull, JObj(NoKeys), JObj([status |-> JU64(0)]), JStr(<<"ok">>), JArr(<<>>)}

UnitResponses == CoreFailures \cup {Success(v) : v \in UnitValues}

(***************************************************************************)
(* State.                                                                  *)
(***************************************************************************)
VARIABLES
    session,    \* Client.session: Option<String>
    legacy,     \* Client.legacy
    ua,         \* Client.ua: Option<String>
    op,         \* the operation in progress or just finished
    pc,         \* where the program is: the next exchange, or a resting place
    ret,        \* what the operation in progress or just finished returned
    wd,         \* the result of the last issue_wd_cmd call
    res,        \* the last reaction of the server
    sent,       \* the requests sent by the operation in progress or just finished
    json,       \* Client::new's local `json`, once the NotW3C arm has bound it
    nav_url,    \* Client::goto's local `url`: the resolved URL to navigate to
    raw,        \* Client::raw_client_for's arguments and locals
    srv_url,    \* the server: the URL the session's browser is at
    handle,     \* the Element or Form that borrows the client, if any
    args        \* the arguments and locals of the other operations

vars ==
    <<session, legacy, ua, op, pc, ret, wd, res, sent, json, nav_url, raw, srv_url,
      handle, args>>

client == <<session, legacy, ua>>

Home == [host |-> "home", path |-> <<"">>]

WebdriverUrls == {<<Scheme, "localhost:4444">>, <<"localhost:4444">>}

\* raw_client_for's method and url arguments, its locals old_url, url and
\* cookie_url, and the result of its GetCookies command
NoRaw ==
    [method |-> "GET", arg |-> <<>>, old_url |-> Home, url |-> Home,
     cookie_url |-> Home, cookies |-> Pending]

Foobar == [host |-> "site", path |-> <<"wiki", "Foobar">>]

Logo == [host |-> "cdn", path |-> <<"static", "logo.png">>]

GotoInputs == {UrlToString(Foobar), <<"Foo_Lake">>}

RawInputs == {UrlToString(Logo), <<"logo.png">>}

PleaseGiveMeYourCookies == <<"please_give_me_your_cookies">>

\* no operation with arguments or locals of its own is in progress
NoArgs == [op |-> "none"]

\* struct Element and struct Form, without the borrowed client
Element(e) == [kind |-> "Element", e |-> e]

Form(f) == [kind |-> "Form", f |-> f]

\* the arguments the operations are called with
Locators == {mklocator(<<"a">>), LinkText(<<"Foo Lake">>), XPath(<<"//a">>)}

FormSelectors == {<<"#search-form">>}

AttributeNames == {<<"href">>, <<"id">>}

\* reactions to an attribute or property read, among them a relative and
\* an absolute link, and a value that has the shape of an error envelope
AttrValues ==
    { JStr(<<"Foo_Lake">>), JStr(UrlToString(Foobar)), JNull, JU64(7), JBool(TRUE),
      JObj(NoKeys), JArr(<<>>), Envelope("unknown error", Msg1) }

AttrResponses == CoreFailures \cup {Success(v) : v \in AttrValues}

FieldNames == {<<"search">>}

FieldValues == {<<"foobar">>}

ButtonLabels == {<<"G", "o">>, <<"\"", "\\">>}

\* the calls of Form::submit, Form::submit_with and Form::submit_using
SubmitCalls ==
    {[op |-> "submit", button |-> SubmitButton]}
      \cup {[op |-> "submit_with", button |-> <<"button#go">>]}
      \cup {[op |-> "submit_using", button |-> submit_using_selector(l)] : l \in ButtonLabels}

\* the most evaluations of a wait_for predicate that are followed
MaxEvaluations == 3

Init ==
    /\ session = None
    /\ legacy = FALSE
    /\ ua = None
    /\ op = "new"
    /\ pc = "new"
    /\ ret = Pending
    /\ wd = Pending
    /\ res = Pending
    /\ sent = <<>>
    /\ json = None
    /\ nav_url = Home
    /\ raw = NoRaw
    /\ srv_url = Home
    /\ handle = None
    /\ args = NoArgs

(***************************************************************************)
(* Client::new, up to the return or to the decision to retry.              *)
(***************************************************************************)
\* variant: the legacy attempt follows a spec attempt that succeeded as well
new_retries_after_success ==
    /\ pc = "new"
    /\ \E webdriver \in WebdriverUrls :
         IF is_err(UrlParse(webdriver))
         THEN /\ ret' = Err(BadWebdriverUrl)
              /\ pc' = "failed"
              /\ UNCHANGED <<session, legacy, ua, op, wd, res, sent, json, nav_url, raw, srv_url,
                          handle, args>>
         ELSE \E r \in NewSessionResponses :
                LET i == init(legacy, "Spec", r)
                    fallback == \/ is_ok(i.result)
                                \/ /\ is_err(i.result)
                                   /\ i.result.v.kind = "NotW3C"
                                   /\ legacy_shape(i.result.v.v)
                IN  /\ sent' = <<request_for(session, legacy, ua, NewSession("Spec"))>>
                    /\ res' = r
                    /\ wd' = i.wd
                    /\ session' = i.session
                    /\ legacy' = i.legacy
                    /\ json' = IF is_err(i.result) /\ i.result.v.kind = "NotW3C"
                               THEN Some(i.result.v.v) ELSE json
                    /\ ret' = IF fallback THEN Pending
                              ELSE IF is_ok(i.result) THEN Ok(JNull) ELSE i.result
                    /\ pc' = IF fallback THEN "new_legacy"
                             ELSE CASE i.result.k = "Ok" -> "returned"
                                    [] i.result.k = "Err" -> "failed"
                                    [] OTHER -> "panicked"
                    /\ UNCHANGED <<ua, op, nav_url, raw, srv_url, handle, args>>

new ==
    /\ pc = "new"
    /\ \E webdriver \in WebdriverUrls :
         IF is_err(UrlParse(webdriver))
         THEN /\ ret' = Err(BadWebdriverUrl)
              /\ pc' = "failed"
              /\ UNCHANGED <<session, legacy, ua, op, wd, res, sent, json, nav_url, raw, srv_url,
                          handle, args>>
         ELSE \E r \in NewSessionResponses :
                LET i == init(legacy, "Spec", r)
                    fallback == /\ is_err(i.result)
                                /\ i.result.v.kind = "NotW3C"
                                /\ legacy_shape(i.result.v.v)
                IN  /\ sent' = <<request_for(session, legacy, ua, NewSession("Spec"))>>
                    /\ res' = r
                    /\ wd' = i.wd
                    /\ session' = i.session
                    /\ legacy' = i.legacy
                    /\ json' = IF is_err(i.result) /\ i.result.v.kind = "NotW3C"
                               THEN Some(i.result.v.v) ELSE json
                    /\ ret' = IF fallback THEN Pending
                              ELSE IF is_ok(i.result) THEN Ok(JNull) ELSE i.result
                    /\ pc' = IF fallback THEN "new_legacy"
                             ELSE CASE i.result.k = "Ok" -> "returned"
                                    [] i.result.k = "Err" -> "failed"
                                    [] OTHER -> "panicked"
                    /\ UNCHANGED <<ua, op, nav_url, raw, srv_url, handle, args>>

\* Client::new, the legacy retry: c.init(Legacy)?; Ok(c)
new_legacy ==
    /\ pc = "new_legacy"
    /\ \E r \in NewSessionResponses :
         LET i == init(legacy, "Legacy", r)
         IN  /\ sent' = Append(sent, request_for(session, i.legacy, ua, NewSession("Legacy")))
             /\ res' = r
             /\ wd' = i.wd
             /\ session' = i.session
             /\ legacy' = i.legacy
             /\ ret' = i.result
             /\ pc' = CASE i.result.k = "Ok" -> "returned"
                        [] i.result.k = "Err" -> "failed"
                        [] OTHER -> "panicked"
             /\ UNCHANGED <<ua, op, json, nav_url, raw, srv_url, handle, args>>

(***************************************************************************)
(* The operations of a client.  An operation starts when the caller holds  *)
(* a client and is about to make a call ("ready").                         *)
(***************************************************************************)
\* the finished operation's request log, reaction, result and locals go away
forget ==
    /\ ret' = Pending
    /\ wd' = Pending
    /\ res' = Pending
    /\ sent' = <<>>
    /\ json' = None
    /\ nav_url' = Home
    /\ raw' = NoRaw
    /\ args' = NoArgs

\* the caller takes the result of an operation that returned a client or a
\* value, and goes on to its next call
resume ==
    /\ pc = "returned"
    /\ pc' = "ready"
    /\ forget
    /\ UNCHANGED <<client, op, srv_url, handle>>

\* after a panic the stack unwinds, after a failed Client::new the local
\* client goes out of scope: the client is about to be dropped
unwind ==
    /\ pc \in {"panicked", "failed"}
    /\ ~(op = "new" /\ sent = <<>>)
    /\ pc' = "releasing"
    /\ forget
    /\ handle' = None
    /\ UNCHANGED <<client, op, srv_url>>

\* one issue_wd_cmd call: the request is sent, the reaction received
exchange(cmd, r, before) ==
    /\ sent' = Append(before, request_for(session, legacy, ua, cmd))
    /\ res' = r
    /\ wd' = issue_wd_cmd(legacy, cmd, r)

\* the operation returns or unwinds
return(result) ==
    /\ ret' = result
    /\ pc' = IF result.k = "Panic" THEN "panicked" ELSE "returned"

CurrentUrlResponses == CoreFailures \cup {Success(v) : v \in CurrentUrlValues(srv_url)}

NavigateResponses == CoreFailures \cup {Success(JNull)}

\* Client::current_url
call_current_url ==
    /\ pc = "ready"
    /\ ~handle.some
    /\ op' = "current_url"
    /\ \E r \in Failures \cup {Success(v) : v \in CurrentUrlValues(srv_url)} :
         /\ exchange(GetCurrentUrl, r, <<>>)
         /\ return(current_url(wd'))
    /\ UNCHANGED <<client, json, nav_url, raw, srv_url, handle, args>>

\* Client::goto, the current-URL query and the join
goto ==
    /\ pc = "ready"
    /\ ~handle.some
    /\ op' = "goto"
    /\ \E url \in GotoInputs, r \in CurrentUrlResponses :
         /\ exchange(GetCurrentUrl, r, <<>>)
         /\ args' = [op |-> "goto", url |-> url]
         /\ LET joined == goto_join(wd', url)
            IN  IF is_ok(joined)
                THEN /\ nav_url' = joined.v
                     /\ pc' = "goto_get"
                     /\ ret' = Pending
                ELSE /\ nav_url' = nav_url
                     /\ return(joined)
    /\ UNCHANGED <<client, json, raw, srv_url, handle>>

\* the Navigate command of a goto: a success moves the browser
navigate(r) ==
    /\ exchange(Get(UrlToString(nav_url)), r, sent)
    /\ srv_url' = IF is_ok(wd') THEN UrlParse(UrlToString(nav_url)).v ELSE srv_url

\* Client::goto, the Navigate command
goto_get ==
    /\ pc = "goto_get"
    /\ \E r \in NavigateResponses :
         /\ navigate(r)
         /\ return(goto_result(wd'))
    /\ UNCHANGED <<client, op, json, nav_url, raw, handle, args>>

\* Client::raw_client_for, up to the computation of the probe URL
raw_client_for ==
    /\ pc = "ready"
    /\ ~handle.some
    /\ op' = "raw_client_for"
    /\ \E url \in RawInputs, r \in CurrentUrlResponses :
         /\ exchange(GetCurrentUrl, r, <<>>)
         /\ LET old_url == current_url(wd')
                target == IF is_ok(old_url) THEN UrlJoin(old_url.v, url) ELSE old_url
                cookie_url == IF is_ok(target)
                              THEN UrlJoin(target.v, PleaseGiveMeYourCookies)
                              ELSE target
            IN  IF is_ok(cookie_url)
                THEN /\ raw' = [method |-> "GET", arg |-> url, old_url |-> old_url.v,
                                url |-> target.v, cookie_url |-> cookie_url.v,
                                cookies |-> Pending]
                     /\ pc' = "raw_probe"
                     /\ ret' = Pending
                ELSE /\ raw' = [NoRaw EXCEPT !.arg = url]
                     /\ return(cookie_url)
    /\ UNCHANGED <<client, json, nav_url, srv_url, handle, args>>

\* a goto inside raw_client_for, the current-URL query and the join
raw_goto(url, then) ==
    /\ \E r \in CurrentUrlResponses :
         /\ exchange(GetCurrentUrl, r, sent)
         /\ LET joined == goto_join(wd', UrlToString(url))
            IN  IF is_ok(joined)
                THEN /\ nav_url' = joined.v
                     /\ pc' = then
                     /\ ret' = Pending
                ELSE /\ nav_url' = nav_url
                     /\ return(joined)
    /\ UNCHANGED <<client, op, json, raw, srv_url, handle, args>>

\* raw_client_for: self.goto(cookie_url)?, first exchange
raw_probe ==
    /\ pc = "raw_probe"
    /\ raw_goto(raw.cookie_url, "raw_probe_get")

\* raw_client_for: self.goto(cookie_url)?, second exchange
raw_probe_get ==
    /\ pc = "raw_probe_get"
    /\ \E r \in NavigateResponses :
         /\ navigate(r)
         /\ LET g == goto_result(wd')
            IN  IF is_ok(g)
                THEN /\ pc' = "raw_get_cookies"
                     /\ ret' = Pending
                ELSE return(g)
    /\ UNCHANGED <<client, op, json, nav_url, raw, handle, args>>

\* raw_client_for: the GetCookies command; its Ok or Err is kept, and the
\* navigation back comes next in both cases
raw_get_cookies ==
    /\ pc = "raw_get_cookies"
    /\ \E r \in CoreFailures \cup {Success(v) : v \in CookieValues} :
         /\ exchange(GetCookies, r, sent)
         /\ IF wd'.k = "Panic"
            THEN /\ return(Panic)
                 /\ raw' = raw
            ELSE /\ raw' = [raw EXCEPT !.cookies = wd']
                 /\ pc' = "raw_back"
                 /\ ret' = Pending
    /\ UNCHANGED <<client, op, json, nav_url, srv_url, handle, args>>

\* raw_client_for: self.goto(old_url)?, first exchange
raw_back ==
    /\ pc = "raw_back"
    /\ raw_goto(raw.old_url, "raw_back_get")

\* raw_client_for: self.goto(old_url)?, second exchange, and the rest: the
\* fetch error, or the jar and the request
raw_back_get ==
    /\ pc = "raw_back_get"
    /\ \E r \in NavigateResponses :
         /\ navigate(r)
         /\ LET g == goto_result(wd')
            IN  IF ~is_ok(g) THEN return(g)
                ELSE IF is_err(raw.cookies) THEN return(raw.cookies)
                ELSE return(raw_request(raw.method, raw.url, raw.cookies.v, ua))
    /\ UNCHANGED <<client, op, json, nav_url, raw, handle, args>>

(***************************************************************************)
(* Elements and forms.  A lookup hands out an Element or a Form that       *)
(* borrows the client; until it is consumed or goes out of scope, the      *)
(* client is reached through it only.                                      *)
(***************************************************************************)
\* Client::by_selector, by_link_text, by_xpath: Client::by on their locator
by ==
    /\ pc = "ready"
    /\ ~handle.some
    /\ op' = "by"
    /\ \E locator \in Locators, r \in LookupResponses :
         /\ exchange(FindElement(locator), r, <<>>)
         /\ args' = [op |-> "by", locator |-> locator]
         /\ LET el == parse_lookup(legacy, wd')
            IN  /\ handle' = IF is_ok(el) THEN Some(Element(el.v)) ELSE None
                /\ return(el)
    /\ UNCHANGED <<client, json, nav_url, raw, srv_url>>

\* Client::form
form ==
    /\ pc = "ready"
    /\ ~handle.some
    /\ op' = "form"
    /\ \E selector \in FormSelectors, r \in LookupResponses :
         /\ exchange(FindElement(mklocator(selector)), r, <<>>)
         /\ args' = [op |-> "form", locator |-> mklocator(selector)]
         /\ LET f == parse_lookup(legacy, wd')
            IN  /\ handle' = IF is_ok(f) THEN Some(Form(f.v)) ELSE None
                /\ return(f)
    /\ UNCHANGED <<client, json, nav_url, raw, srv_url>>

\* the Element or Form goes out of scope: the client is free again
release ==
    /\ pc = "ready"
    /\ handle.some
    /\ handle' = None
    /\ UNCHANGED <<client, op, pc, ret, wd, res, sent, json, nav_url, raw, srv_url, args>>

\* Element::attr
attr ==
    /\ pc = "ready"
    /\ handle.some
    /\ handle.v.kind = "Element"
    /\ op' = "attr"
    /\ \E attribute \in AttributeNames, r \in AttrResponses :
         /\ exchange(GetElementAttribute(handle.v.e, attribute), r, <<>>)
         /\ args' = [op |-> "attr", e |-> handle.v.e, name |-> attribute]
         /\ return(attr_result(wd'))
    /\ UNCHANGED <<client, json, nav_url, raw, srv_url, handle>>

\* Element::prop
prop ==
    /\ pc = "ready"
    /\ handle.some
    /\ handle.v.kind = "Element"
    /\ op' = "prop"
    /\ \E name \in AttributeNames, r \in AttrResponses :
         /\ exchange(GetElementProperty(handle.v.e, name), r, <<>>)
         /\ args' = [op |-> "prop", e |-> handle.v.e, name |-> name]
         /\ return(prop_result(wd'))
    /\ UNCHANGED <<client, json, nav_url, raw, srv_url, handle>>

\* Element::html
html ==
    /\ pc = "ready"
    /\ handle.some
    /\ handle.v.kind = "Element"
    /\ op' = "html"
    /\ \E inner \in BOOLEAN, r \in AttrResponses :
         /\ exchange(GetElementProperty(handle.v.e, html_prop(inner)), r, <<>>)
         /\ args' = [op |-> "html", e |-> handle.v.e, inner |-> inner]
         /\ return(html_result(prop_result(wd')))
    /\ UNCHANGED <<client, json, nav_url, raw, srv_url, handle>>

\* Element::click
click ==
    /\ pc = "ready"
    /\ handle.some
    /\ handle.v.kind = "Element"
    /\ op' = "click"
    /\ handle' = None
    /\ args' = [op |-> "click", e |-> handle.v.e]
    /\ \E r \in UnitResponses :
         /\ exchange(ElementClick(handle.v.e), r, <<>>)
         /\ return(click_result(wd'))
    /\ UNCHANGED <<client, json, nav_url, raw, srv_url>>

\* Element::follow, the read of the href attribute
follow ==
    /\ pc = "ready"
    /\ handle.some
    /\ handle.v.kind = "Element"
    /\ op' = "follow"
    /\ handle' = None
    /\ \E r \in AttrResponses :
         /\ exchange(GetElementAttribute(handle.v.e, <<"href">>), r, <<>>)
         /\ LET href == follow_href(wd')
            IN  IF is_ok(href)
                THEN /\ args' = [op |-> "follow", e |-> handle.v.e, href |-> href.v,
                                 url |-> Home]
                     /\ pc' = "follow_current_url"
                     /\ ret' = Pending
                ELSE /\ args' = [op |-> "follow", e |-> handle.v.e, href |-> <<>>,
                                 url |-> Home]
                     /\ return(href)
    /\ UNCHANGED <<client, json, nav_url, raw, srv_url>>

\* Element::follow, the current-URL query and the join
follow_current_url ==
    /\ pc = "follow_current_url"
    /\ \E r \in CurrentUrlResponses :
         /\ exchange(GetCurrentUrl, r, sent)
         /\ LET href == follow_join(wd', args.href)
            IN  IF is_ok(href)
                THEN /\ args' = [args EXCEPT !.url = href.v]
                     /\ pc' = "follow_goto"
                     /\ ret' = Pending
                ELSE /\ args' = args
                     /\ return(href)
    /\ UNCHANGED <<client, op, json, nav_url, raw, srv_url, handle>>

\* Element::follow: self.c.goto(href)?, first exchange
follow_goto ==
    /\ pc = "follow_goto"
    /\ raw_goto(args.url, "follow_get")

\* Element::follow: self.c.goto(href)?, second exchange
follow_get ==
    /\ pc = "follow_get"
    /\ \E r \in NavigateResponses :
         /\ navigate(r)
         /\ return(goto_result(wd'))
    /\ UNCHANGED <<client, op, json, nav_url, raw, handle, args>>

\* Form::set_by_name, the lookup of the field
set_by_name ==
    /\ pc = "ready"
    /\ handle.some
    /\ handle.v.kind = "Form"
    /\ op' = "set_by_name"
    /\ \E name \in FieldNames, value \in FieldValues, r \in LookupResponses :
         /\ exchange(FindElementElement(handle.v.f, field_locator(name)), r, <<>>)
         /\ LET field == parse_lookup(legacy, wd')
            IN  IF is_ok(field)
                THEN /\ args' = [op |-> "set_by_name", name |-> name, value |-> value,
                                 field |-> field.v]
                     /\ pc' = "set_by_name_script"
                     /\ ret' = Pending
                ELSE /\ args' = [op |-> "set_by_name", name |-> name, value |-> value,
                                 field |-> <<>>]
                     /\ return(field)
    /\ UNCHANGED <<client, json, nav_url, raw, srv_url, handle>>

\* Form::set_by_name, the script
set_by_name_script ==
    /\ pc = "set_by_name_script"
    /\ \E r \in UnitResponses :
         /\ exchange(ExecuteScript(SetValueScript,
                                   set_by_name_args(legacy, args.field, args.value)),
                     r, sent)
         /\ return(set_by_name_result(wd'))
    /\ UNCHANGED <<client, op, json, nav_url, raw, srv_url, handle, args>>

\* Form::submit, Form::submit_using and Form::submit_with: the lookup of
\* the button
submit_with ==
    /\ pc = "ready"
    /\ handle.some
    /\ handle.v.kind = "Form"
    /\ handle' = None
    /\ \E call \in SubmitCalls, r \in LookupResponses :
         /\ op' = call.op
         /\ exchange(FindElementElement(handle.v.f, mklocator(call.button)), r, <<>>)
         /\ LET submit == parse_lookup(legacy, wd')
            IN  IF is_ok(submit)
                THEN /\ args' = [op |-> call.op, button |-> call.button,
                                 submit |-> submit.v]
                     /\ pc' = "submit_click"
                     /\ ret' = Pending
                ELSE /\ args' = [op |-> call.op, button |-> call.button, submit |-> <<>>]
                     /\ return(submit)
    /\ UNCHANGED <<client, json, nav_url, raw, srv_url>>

\* Form::submit_with, the click on the button
submit_click ==
    /\ pc = "submit_click"
    /\ \E r \in UnitResponses :
         /\ exchange(ElementClick(args.submit), r, sent)
         /\ return(submit_with_result(wd'))
    /\ UNCHANGED <<client, op, json, nav_url, raw, srv_url, handle, args>>

\* Form::submit_direct
submit_direct ==
    /\ pc = "ready"
    /\ handle.some
    /\ handle.v.kind = "Form"
    /\ op' = "submit_direct"
    /\ handle' = None
    /\ args' = [op |-> "submit_direct", f |-> handle.v.f]
    /\ \E r \in UnitResponses :
         /\ exchange(ExecuteScript(SubmitScript, submit_direct_args(legacy, handle.v.f)),
                     r, <<>>)
         /\ return(submit_direct_result(wd'))
    /\ UNCHANGED <<client, json, nav_url, raw, srv_url>>

\* Form::submit_sneaky, the injection script
submit_sneaky ==
    /\ pc = "ready"
    /\ handle.some
    /\ handle.v.kind = "Form"
    /\ op' = "submit_sneaky"
    /\ handle' = None
    /\ args' = [op |-> "submit_sneaky", f |-> handle.v.f]
    /\ \E field \in FieldNames, value \in FieldValues, r \in UnitResponses :
         /\ exchange(ExecuteScript(InjectScript,
                                   submit_sneaky_args(handle.v.f, field, value)),
                     r, <<>>)
         /\ LET injected == submit_sneaky_result(wd')
            IN  IF is_ok(injected)
                THEN /\ pc' = "submit_sneaky_direct"
                     /\ ret' = Pending
                ELSE return(injected)
    /\ UNCHANGED <<client, json, nav_url, raw, srv_url>>

\* Form::submit_sneaky: self.submit_direct()
submit_sneaky_direct ==
    /\ pc = "submit_sneaky_direct"
    /\ \E r \in UnitResponses :
         /\ exchange(ExecuteScript(SubmitScript, submit_direct_args(legacy, args.f)),
                     r, sent)
         /\ return(submit_direct_result(wd'))
    /\ UNCHANGED <<client, op, json, nav_url, raw, srv_url, handle, args>>

(***************************************************************************)
(* Waiting.  One action per evaluation of the predicate; args.evals is the *)
(* log of the evaluations so far.                                          *)
(***************************************************************************)
\* one turn of the loop of wait_for on a predicate the caller wrote: the
\* predicate answers, and the loop goes on or wait_for returns
evaluate(evals) ==
    \E is_ready \in BOOLEAN :
      /\ args' = [op |-> "wait_for", evals |-> Append(evals, is_ready)]
      /\ IF keep_waiting(is_ready)
         THEN /\ pc' = "wait_for"
              /\ ret' = Pending
         ELSE return(Ok(JNull))

\* Client::wait_for, up to the first evaluation
wait_for ==
    /\ pc = "ready"
    /\ ~handle.some
    /\ op' = "wait_for"
    /\ evaluate(<<>>)
    /\ UNCHANGED <<client, wd, res, sent, json, nav_url, raw, srv_url, handle>>

\* Client::wait_for, a later evaluation
wait_for_again ==
    /\ pc = "wait_for"
    /\ Len(args.evals) < MaxEvaluations
    /\ evaluate(args.evals)
    /\ UNCHANGED <<client, op, wd, res, sent, json, nav_url, raw, srv_url, handle>>

\* one turn of the loop of wait_for on the closure of wait_for_navigation:
\* the browser is where it was or has moved on, the closure queries the
\* current URL, and the loop goes on or wait_for_navigation returns
poll(current, given, evals, before) ==
    \E at \in {srv_url, Foobar} :
      \E r \in CoreFailures \cup {Success(v) : v \in CurrentUrlValues(at)} :
        /\ srv_url' = at
        /\ exchange(GetCurrentUrl, r, before)
        /\ LET url == current_url(wd')
               is_ready == navigated(current, url)
           IN  /\ args' = [op |-> "wait_for_navigation", current |-> current,
                           given |-> given, evals |-> Append(evals, url)]
               /\ IF is_ready.k = "Panic" THEN return(Panic)
                  ELSE IF keep_waiting(is_ready.v.is_ready)
                  THEN /\ pc' = "wait_for_navigation"
                       /\ ret' = Pending
                  ELSE return(wait_for_navigation_result(is_ready.v.err))

\* Client::wait_for_navigation: the baseline, and the first poll when the
\* caller gave the baseline
wait_for_navigation ==
    /\ pc = "ready"
    /\ ~handle.some
    /\ op' = "wait_for_navigation"
    /\ \E current \in {None, Some(srv_url), Some(Foobar)} :
         IF current.some
         THEN poll(current.v, TRUE, <<>>, <<>>)
         ELSE /\ \E r \in CurrentUrlResponses :
                   /\ exchange(GetCurrentUrl, r, <<>>)
                   /\ LET url == current_url(wd')
                      IN  IF is_ok(url)
                          THEN /\ args' = [op |-> "wait_for_navigation",
                                           current |-> url.v, given |-> FALSE,
                                           evals |-> <<>>]
                               /\ pc' = "wait_for_navigation"
                               /\ ret' = Pending
                          ELSE /\ args' = [op |-> "wait_for_navigation",
                                           current |-> Home, given |-> FALSE,
                                           evals |-> <<>>]
                               /\ return(url)
              /\ srv_url' = srv_url
    /\ UNCHANGED <<client, json, nav_url, raw, handle>>

\* Client::wait_for_navigation, a later poll
wait_for_navigation_poll ==
    /\ pc = "wait_for_navigation"
    /\ Len(args.evals) < MaxEvaluations
    /\ poll(args.current, args.given, args.evals, sent)
    /\ UNCHANGED <<client, op, json, nav_url, raw, handle>>

\* variant: the session id is taken out of the client as it is released
drop_takes_session ==
    /\ pc \in {"ready", "releasing"}
    /\ ~handle.some
    /\ op' = "drop"
    /\ IF session.some
       THEN \E r \in Failures \cup {Success(JNull)} :
              /\ exchange(DeleteSession, r, <<>>)
              /\ ret' = IF is_ok(wd') THEN Ok(JNull) ELSE Panic
              /\ pc' = IF is_ok(wd') THEN "dropped" ELSE "aborted"
       ELSE /\ sent' = <<>>
            /\ res' = Pending
            /\ wd' = Pending
            /\ ret' = Ok(JNull)
            /\ pc' = "dropped"
    /\ session' = None
    /\ UNCHANGED <<legacy, ua, json, nav_url, raw, srv_url, handle, args>>

\* Drop for Client: the release of a client, by its owner or by unwinding
drop ==
    /\ pc \in {"ready", "releasing"}
    /\ ~handle.some
    /\ op' = "drop"
    /\ IF session.some
       THEN \E r \in Failures \cup {Success(JNull)} :
              /\ exchange(DeleteSession, r, <<>>)
              /\ ret' = IF is_ok(wd') THEN Ok(JNull) ELSE Panic
              /\ pc' = IF is_ok(wd') THEN "dropped" ELSE "aborted"
       ELSE /\ sent' = <<>>
            /\ res' = Pending
            /\ wd' = Pending
            /\ ret' = Ok(JNull)
            /\ pc' = "dropped"
    /\ UNCHANGED <<client, json, nav_url, raw, srv_url, handle, args>>

Next ==
    \/ new
    \/ new_legacy
    \/ resume
    \/ unwind
    \/ call_current_url
    \/ goto
    \/ goto_get
    \/ raw_client_for
    \/ raw_probe
    \/ raw_probe_get
    \/ raw_get_cookies
    \/ raw_back
    \/ raw_back_get
    \/ by
    \/ form
    \/ release
    \/ attr
    \/ prop
    \/ html
    \/ click
    \/ follow
    \/ follow_current_url
    \/ follow_goto
    \/ follow_get
    \/ set_by_name
    \/ set_by_name_script
    \/ submit_with
    \/ submit_click
    \/ submit_direct
    \/ submit_sneaky
    \/ submit_sneaky_direct
    \/ wait_for
    \/ wait_for_again
    \/ wait_for_navigation
    \/ wait_for_navigation_poll
    \/ drop

Spec == Init /\ [][Next]_vars

\* the waiting thread yields in its loop (thread::yield_now) and is run
\* again: a turn of the loop that can be taken is taken
FairSpec ==
    /\ Spec
    /\ WF_vars(wait_for_again)
    /\ WF_vars(wait_for_navigation_poll)

(***************************************************************************)
(* Form::submit_using over every label up to a length: the caller holds a  *)
(* form of a session, and calls submit_using on it.                        *)
(***************************************************************************)
\* the longest button label that is tried
MaxLabelLen == 3

\* the characters of a label: a letter, the backslash and the double quote
LabelChars == {"a", "\\", "\""}

Labels == UNION {[1..n -> LabelChars] : n \in 0..MaxLabelLen}

\* Client::form has returned a Form to the caller
HoldingForm ==
    /\ session = Some(<<"s1">>)
    /\ legacy = FALSE
    /\ ua = None
    /\ op = "form"
    /\ pc = "ready"
    /\ ret = Pending
    /\ wd = Pending
    /\ res = Pending
    /\ sent = <<>>
    /\ json = None
    /\ nav_url = Home
    /\ raw = NoRaw
    /\ srv_url = Home
    /\ handle = Some(Form(<<"e1">>))
    /\ args = NoArgs

\* Form::submit_using: the selector of the label, and submit_with's lookup
\* of the button
submit_using ==
    /\ pc = "ready"
    /\ handle.some
    /\ handle.v.kind = "Form"
    /\ op' = "submit_using"
    /\ handle' = None
    /\ \E button_label \in Labels, r \in LookupResponses :
         LET button == submit_using_selector(button_label)
         IN  /\ exchange(FindElementElement(handle.v.f, mklocator(button)), r, <<>>)
             /\ LET submit == parse_lookup(legacy, wd')
                IN  IF is_ok(submit)
                    THEN /\ args' = [op |-> "submit_using", button_label |-> button_label,
                                     button |-> button, submit |-> submit.v]
                         /\ pc' = "submit_click"
                         /\ ret' = Pending
                    ELSE /\ args' = [op |-> "submit_using", button_label |-> button_label,
                                     button |-> button, submit |-> <<>>]
                         /\ return(submit)
    /\ UNCHANGED <<client, json, nav_url, raw, srv_url>>

SubmitUsingNext ==
    \/ submit_using
    \/ submit_click

SubmitUsingSpec == HoldingForm /\ [][SubmitUsingNext]_vars

(***************************************************************************)
(* Client::set_ua, and a caller that sets the User-Agent between its       *)
(* navigations and lookups.                                                *)
(***************************************************************************)
UserAgents == {<<"agent-1">>, <<"agent-2">>}

\* Client::set_ua
set_ua ==
    /\ pc = "ready"
    /\ ~handle.some
    /\ op' = "set_ua"
    /\ \E s \in UserAgents : ua' = Some(s)
    /\ UNCHANGED <<session, legacy, pc, ret, wd, res, sent, json, nav_url, raw, srv_url,
                   handle, args>>

UserAgentNext ==
    \/ new
    \/ new_legacy
    \/ resume
    \/ unwind
    \/ set_ua
    \/ call_current_url
    \/ goto
    \/ goto_get
    \/ raw_client_for
    \/ raw_probe
    \/ raw_probe_get
    \/ raw_get_cookies
    \/ raw_back
    \/ raw_back_get
    \/ drop

UserAgentSpec == Init /\ [][UserAgentNext]_vars

(***************************************************************************)
(* Client::raw_client_for over the expiry, secure and httpOnly members of  *)
(* a cookie: the session has answered GetCookies with one cookie, and the  *)
(* navigation back and the construction of the jar follow.                 *)
(***************************************************************************)
\* the largest number of seconds that is tried, in both directions
MaxExpiry == 2

\* a member that is absent (None) or present with a value
with_member(o, key, member) == IF member.some THEN insert(o, key, member.v) ELSE o

Expiries ==
    {None, Some(JNull)}
      \cup {Some(JU64(n)) : n \in 0..MaxExpiry}
      \cup {Some(JI64(n)) : n \in (0 - MaxExpiry)..MaxExpiry}

Flags == {None, Some(JBool(TRUE)), Some(JBool(FALSE))}

ExpiringCookies ==
    { JObj(with_member(with_member(with_member(
               [name |-> JStr(<<"sid">>), value |-> JStr(<<"1">>)],
               "expiry", e), "secure", s), "httpOnly", h)) :
      e \in Expiries, s \in Flags, h \in Flags }

\* raw_client_for(Method::Get, "logo.png") of a session at Home has
\* navigated to the probe URL and received the cookies
HoldingCookies ==
    \E c \in ExpiringCookies :
        LET target == UrlJoin(Home, <<"logo.png">>).v
            cookie_url == UrlJoin(target, PleaseGiveMeYourCookies).v
            r == Success(JArr(<<c>>))
            sess == Some(<<"s1">>)
        IN  /\ session = sess
            /\ legacy = FALSE
            /\ ua = None
            /\ op = "raw_client_for"
            /\ pc = "raw_back"
            /\ ret = Pending
            /\ wd = issue_wd_cmd(FALSE, GetCookies, r)
            /\ res = r
            /\ sent = << request_for(sess, FALSE, None, GetCurrentUrl),
                         request_for(sess, FALSE, None, GetCurrentUrl),
                         request_for(sess, FALSE, None, Get(UrlToString(cookie_url))),
                         request_for(sess, FALSE, None, GetCookies) >>
            /\ json = None
            /\ nav_url = cookie_url
            /\ raw = [method |-> "GET", arg |-> <<"logo.png">>, old_url |-> Home,
                      url |-> target, cookie_url |-> cookie_url,
                      cookies |-> issue_wd_cmd(FALSE, GetCookies, r)]
            /\ srv_url = cookie_url
            /\ handle = None
            /\ args = NoArgs

CookieNext ==
    \/ raw_back
    \/ raw_back_get

CookieSpec == HoldingCookies /\ [][CookieNext]_vars

(***************************************************************************)
(* Properties.                                                             *)
(***************************************************************************)
\* the last reaction is an HTTP response whose body parsed as JSON
JsonResponse ==
    /\ "transport" \in DOMAIN res
    /\ res.transport = "ok"
    /\ res.ctype = "json"
    /\ res.body.b = "json"

\* the place of the envelope in the last reaction: the top-level object for
\* a legacy session creation, what is under "value" otherwise
HasEnvelope ==
    /\ JsonResponse
    /\ res.body.v.t = "obj"
    /\ (op = "new" /\ legacy) \/ "value" \in DOMAIN res.body.v.v

TheEnvelope ==
    IF op = "new" /\ legacy THEN res.body.v ELSE res.body.v.v["value"]

\* an error envelope: an object with a string "error" and a string "message"
WellFormedError ==
    /\ HasEnvelope
    /\ ~is_success(res.status)
    /\ TheEnvelope.t = "obj"
    /\ {"error", "message"} \subseteq DOMAIN TheEnvelope.v
    /\ TheEnvelope.v["error"].t = "str"
    /\ TheEnvelope.v["message"].t = "str"

NewEnded == op = "new" /\ pc \in {"returned", "failed", "panicked"}

\* the two response shapes that stand for a legacy server
RecognizedLegacyShape(j) ==
    \/ j.t = "str" /\ starts_with(j.v, <<"Missing Command Parameter">>)
    \/ /\ j.t = "obj"
       /\ "message" \in DOMAIN j.v
       /\ j.v["message"].t = "str"
       /\ contains(j.v["message"].v, <<"cannot find dict 'desiredCapabilities'">>)

SpecShaped(req) ==
    /\ req.method = "POST"
    /\ req.path = <<"session">>
    /\ req.body.some
    /\ DOMAIN req.body.v.v = {"capabilities"}

LegacyShaped(req) ==
    /\ req.method = "POST"
    /\ req.path = <<"session">>
    /\ req.body.some
    /\ DOMAIN req.body.v.v = {"desiredCapabilities", "requiredCapabilities"}

\* C1: whatever the server's reaction to the session-creation requests,
\* Client::new ends with a client that holds a session id or with a
\* NewSessionError returned to the caller, and never with an abort.
C1_NewYieldsSessionOrError ==
    NewEnded =>
        \/ is_ok(ret) /\ session.some
        \/ is_err(ret)

\* the legacy attempt was answered, with a success status, by an object with
\* a string "sessionId" at its top level
LegacyAttemptSucceeds ==
    /\ JsonResponse
    /\ is_success(res.status)
    /\ res.body.v.t = "obj"
    /\ "sessionId" \in DOMAIN res.body.v.v
    /\ res.body.v.v["sessionId"].t = "str"

\* C2: when the spec attempt got a non-conforming response of one of the two
\* recognized legacy shapes, Client::new goes on to one legacy-shaped
\* session-creation request, and when that request is answered by an object
\* with a string "sessionId" at its top level, Client::new succeeds with
\* that session id and the Legacy dialect.
C2_LegacyFallback ==
    (op = "new" /\ json.some /\ RecognizedLegacyShape(json.v)) =>
        \/ pc = "new_legacy" /\ Len(sent) = 1 /\ ret = Pending
        \/ /\ NewEnded
           /\ Len(sent) = 2
           /\ LegacyShaped(sent[2])
           /\ LegacyAttemptSucceeds =>
                /\ pc = "returned"
                /\ is_ok(ret)
                /\ session = Some(res.body.v.v["sessionId"].v)
                /\ legacy

C2_Witness ==
    /\ NewEnded
    /\ json.some
    /\ json.v.t = "obj"
    /\ RecognizedLegacyShape(json.v)
    /\ Len(sent) = 2
    /\ LegacyAttemptSucceeds
    /\ session = Some(<<"s2">>)
    /\ legacy

\* C3: when the spec attempt got a non-conforming response of neither
\* recognized legacy shape, Client::new returns the NotW3C error that carries
\* that response, and only the spec-shaped request has been issued.
C3_OtherShapeIsTerminal ==
    (op = "new" /\ json.some /\ ~RecognizedLegacyShape(json.v)) =>
        /\ pc = "failed"
        /\ ret = Err([kind |-> "NotW3C", v |-> json.v])
        /\ Len(sent) = 1
        /\ SpecShaped(sent[1])
        /\ (HasEnvelope /\ is_success(res.status)) => json.v = TheEnvelope

C3_Witness ==
    /\ op = "new"
    /\ pc = "failed"
    /\ json = Some(JObj([message |-> JU64(33)]))
    /\ Len(sent) = 1

\* C4: a session-creation request, spec or legacy, that is answered with
\* status 500 and an error envelope of code "session not created" makes
\* Client::new return the SessionNotCreated error with the server's message,
\* and no request follows it.
C4_SessionNotCreated ==
    (/\ op = "new"
     /\ WellFormedError
     /\ res.status = 500
     /\ TheEnvelope.v["error"].v = <<"session not created">>) =>
        /\ pc = "failed"
        /\ ret = Err([kind |-> "SessionNotCreated",
                      v |-> [error |-> "SessionNotCreated",
                             message |-> TheEnvelope.v["message"].v]])
        /\ Len(sent) = IF legacy THEN 2 ELSE 1

C4_Witness ==
    /\ op = "new"
    /\ legacy
    /\ Len(sent) = 2
    /\ WellFormedError
    /\ is_err(ret)
    /\ ret.v.kind = "SessionNotCreated"

\* C5: the release of a client that holds a session id issues exactly one
\* DELETE /session/{id}, and completes without a failure reaching the caller
\* and without an abort, whatever the outcome of the request.
C5_ReleaseIsSilent ==
    (op = "drop" /\ session.some) =>
        /\ Len(sent) = 1
        /\ sent[1].method = "DELETE"
        /\ sent[1].path = <<"session">> \o session.v
        /\ pc = "dropped"
        /\ is_ok(ret)

\* the classification table: status, error code, error kind
ClassificationTable ==
    { <<400, "element click intercepted", "ElementClickIntercepted">>,
      <<400, "element not selectable", "ElementNotSelectable">>,
      <<400, "element not interactable", "ElementNotInteractable">>,
      <<400, "insecure certificate", "InsecureCertificate">>,
      <<400, "invalid argument", "InvalidArgument">>,
      <<400, "invalid cookie domain", "InvalidCookieDomain">>,
      <<400, "invalid coordinates", "InvalidCoordinates">>,
      <<400, "invalid element state", "InvalidElementState">>,
      <<400, "invalid selector", "InvalidSelector">>,
      <<400, "no such alert", "NoSuchAlert">>,
      <<400, "no such frame", "NoSuchFrame">>,
      <<400, "no such window", "NoSuchWindow">>,
      <<400, "stale element reference", "StaleElementReference">>,
      <<404, "unknown command", "UnknownCommand">>,
      <<404, "no such cookie", "NoSuchCookie">>,
      <<404, "invalid session id", "InvalidSessionId">>,
      <<404, "no such element", "NoSuchElement">>,
      <<500, "javascript error", "JavascriptError">>,
      <<500, "move target out of bounds", "MoveTargetOutOfBounds">>,
      <<500, "session not created", "SessionNotCreated">>,
      <<500, "unable to set cookie", "UnableToSetCookie">>,
      <<500, "unable to capture screen", "UnableToCaptureScreen">>,
      <<500, "unexpected alert open", "UnexpectedAlertOpen">>,
      <<500, "unknown error", "UnknownError">>,
      <<500, "unsupported operation", "UnsupportedOperation">>,
      <<408, "timeout", "Timeout">>,
      <<408, "script timeout", "ScriptTimeout">>,
      <<405, "unknown method", "UnknownMethod">> }

InTable ==
    \E row \in ClassificationTable :
        res.status = row[1] /\ TheEnvelope.v["error"].v = <<row[2]>>

\* C6: a failure response with a well-formed error envelope whose (status,
\* error code) pair is in the classification table makes the command return
\* the protocol error of the same-named kind with the envelope's message.
C6_TableIsClassified ==
    \A row \in ClassificationTable :
        (/\ WellFormedError
         /\ res.status = row[1]
         /\ TheEnvelope.v["error"].v = <<row[2]>>) =>
            wd = Err([kind |-> "Standard",
                      v |-> [error |-> row[3],
                             message |-> TheEnvelope.v["message"].v]])

C6_Witness ==
    /\ op = "current_url"
    /\ WellFormedError
    /\ res.status = 404
    /\ TheEnvelope.v["error"].v = <<"no such element">>
    /\ is_err(wd)
    /\ wd.v.kind = "Standard"
    /\ wd.v.v.error = "NoSuchElement"
    /\ ret = wd

\* C7: a failure response with a well-formed error envelope whose (status,
\* error code) pair is outside the table makes the command return an error
\* that is not a protocol error kind; the operation does not abort.
C7_OutOfTableIsSurfaced ==
    (WellFormedError /\ ~InTable) =>
        /\ is_err(wd)
        /\ wd.v.kind # "Standard"

RawEnded == op = "raw_client_for" /\ pc \in {"returned", "panicked"}

\* C8: when the cookie fetch of raw_client_for fails, the browser is at the
\* recorded original URL when raw_client_for returns.
C8_UrlRestoredAfterFetchFailure ==
    (RawEnded /\ is_err(raw.cookies)) => srv_url = raw.old_url

\* the requests sent after the GetCookies request include a Navigate to the
\* recorded original URL
NavigatedBack ==
    \E i \in 1..Len(sent) :
        /\ i > 4
        /\ sent[i].method = "POST"
        /\ sent[i].body = Some(JObj([url |-> JStr(UrlToString(raw.old_url))]))

\* C9: when the cookie fetch fails with error E, a Navigate back to the
\* recorded original URL is issued before raw_client_for returns, and the
\* error returned is E.
C9_FetchErrorIsReturned ==
    (RawEnded /\ is_err(raw.cookies)) =>
        /\ NavigatedBack
        /\ ret = raw.cookies

\* the value is present and neither null nor of the wanted types
WrongType(o, key, types) ==
    /\ key \in DOMAIN o
    /\ o[key].t # "null"
    /\ o[key].t \notin types

MalformedEntry(e) ==
    \/ e.t # "obj"
    \/ /\ e.t = "obj"
       /\ \/ "name" \notin DOMAIN e.v
          \/ "value" \notin DOMAIN e.v
          \/ e.v["name"].t # "str"
          \/ e.v["value"].t # "str"
          \/ WrongType(e.v, "path", {"str"})
          \/ WrongType(e.v, "domain", {"str"})
          \/ WrongType(e.v, "expiry", {"u64", "i64", "f64"})

MalformedCookies(v) ==
    \/ v.t # "arr"
    \/ v.t = "arr" /\ \E i \in 1..Len(v.v) : MalformedEntry(v.v[i])

\* raw_client_for fetched the cookies, navigated back, and went on to build
\* the jar
JarBuilt ==
    /\ RawEnded
    /\ is_ok(raw.cookies)
    /\ Len(sent) = 6
    /\ is_ok(wd)

\* C10: raw_client_for returns the malformed-response error, and no request,
\* when the cookie value is not an array or has a malformed entry; a request
\* that it returns has one Cookie entry per cookie, in the server's order.
C10_NoPartialJar ==
    JarBuilt =>
        /\ MalformedCookies(raw.cookies.v) =>
              /\ is_err(ret)
              /\ ret.v.kind = "NotW3C"
        /\ is_ok(ret) =>
              /\ Len(ret.v.cookie) = Len(raw.cookies.v.v)
              /\ \A i \in 1..Len(ret.v.cookie) :
                    ret.v.cookie[i].name = raw.cookies.v.v[i].v["name"].v

\* the last reaction is a success response with a value under "value"
Succeeded ==
    /\ JsonResponse
    /\ is_success(res.status)
    /\ res.body.v.t = "obj"
    /\ "value" \in DOMAIN res.body.v.v

\* the unwrapped value of the last reaction
Value == res.body.v.v["value"]

EmptyObject(v) == v.t = "obj" /\ DOMAIN v.v = {}

NonEmptyObject(v) == v.t = "obj" /\ DOMAIN v.v # {}

\* a click or a form submission ran to its last command and returned
SubmissionEnded ==
    /\ pc = "returned"
    /\ \/ op \in {"click", "submit_direct"} /\ Len(sent) = 1
       \/ op \in {"submit", "submit_with", "submit_using"} /\ Len(sent) = 2

\* C11: click, submit, submit_with, submit_using and submit_direct succeed
\* and hand back the client when the last command's success response has
\* the value null or {}; a non-empty object gives the malformed-response
\* error that carries the object.
C11_NullOrEmptyObjectSucceeds ==
    (SubmissionEnded /\ Succeeded) =>
        /\ (Value.t = "null" \/ EmptyObject(Value)) => (is_ok(ret) /\ ~handle.some)
        /\ NonEmptyObject(Value) => ret = Err(NotW3C(Value))

\* submit_direct got a success response with a non-empty object
C11_Witness ==
    /\ SubmissionEnded
    /\ op = "submit_direct"
    /\ Succeeded
    /\ NonEmptyObject(Value)
    /\ is_err(ret)

\* the path of a session command
SessionPath == <<"session">> \o session.v

\* the text of a reference resolved against a base URL: an absolute
\* reference is itself, a relative one takes the place of the last segment
Resolved(base, reference) ==
    IF reference[1] = Scheme THEN reference
    ELSE <<Scheme, base.host>> \o SubSeq(base.path, 1, Len(base.path) - 1) \o reference

\* the last reaction reports the URL the browser is at
ReportsBrowserUrl ==
    /\ Succeeded
    /\ Value = JStr(UrlToString(srv_url))

CurrentUrlRequest ==
    [method |-> "GET", path |-> SessionPath \o <<"url">>, body |-> None, ua |-> ua]

NavigateRequest(text) ==
    [method |-> "POST", path |-> SessionPath \o <<"url">>,
     body |-> Some(JObj([url |-> JStr(text)])), ua |-> ua]

\* C12: goto(U) first queries the current URL and then sends Navigate with
\* U resolved against the answer (an absolute U as it is); no Navigate is
\* sent when the query fails; after a successful goto the browser is at the
\* resolved URL, and current_url returns the URL the server reports.
C12_GotoResolvesAgainstCurrentUrl ==
    /\ (op = "goto" /\ Len(sent) >= 1) => sent[1] = CurrentUrlRequest
    /\ (op = "goto" /\ pc = "goto_get") =>
          /\ Len(sent) = 1
          /\ ReportsBrowserUrl
          /\ UrlToString(nav_url) = Resolved(srv_url, args.url)
    /\ (op = "goto" /\ pc \in {"returned", "panicked"} /\ Len(sent) = 1) =>
          /\ ~ReportsBrowserUrl
          /\ ~is_ok(ret)
    /\ (op = "goto" /\ Len(sent) >= 2) =>
          /\ Len(sent) = 2
          /\ sent[2] = NavigateRequest(UrlToString(nav_url))
    /\ (op = "goto" /\ pc = "returned" /\ is_ok(ret)) =>
          /\ Len(sent) = 2
          /\ srv_url = nav_url
    /\ (op = "current_url" /\ pc = "returned" /\ ReportsBrowserUrl) => ret = Ok(srv_url)

\* a goto to a relative URL from the Foobar page succeeded
C12_Witness ==
    /\ op = "goto"
    /\ pc = "returned"
    /\ is_ok(ret)
    /\ args.url = <<"Foo_Lake">>
    /\ srv_url = [host |-> "site", path |-> <<"wiki", "Foo_Lake">>]

\* the last reaction is a success response that carries an element id
\* under the key of the session's dialect
WellFormedLookup ==
    /\ Succeeded
    /\ Value.t = "obj"
    /\ LET key == IF legacy THEN "ELEMENT" ELSE ELEMENT_KEY
       IN  /\ key \in DOMAIN Value.v
           /\ Value.v[key].t = "str"

ScopedLookupOps == {"set_by_name", "submit", "submit_with", "submit_using"}

\* the request of a lookup scoped to the element f
ScopedLookupRequest(req) ==
    /\ req.method = "POST"
    /\ Len(req.path) = Len(SessionPath) + 3
    /\ SubSeq(req.path, 1, Len(SessionPath) + 1) = SessionPath \o <<"element">>
    /\ req.path[Len(req.path)] = "element"

PropertyNames == AttributeNames \cup {<<"innerHTML">>, <<"outerHTML">>}

SessionCommands ==
    {DeleteSession, GetCurrentUrl, GetPageSource, GetCookies}
      \cup {Get(url) : url \in GotoInputs}
      \cup {FindElement(l) : l \in Locators}
      \cup {FindElementElement(e, l) : e \in ElementIds, l \in Locators}
      \cup {ExecuteScript(SubmitScript, <<WebElementJson(e)>>) : e \in ElementIds}
      \cup {GetElementProperty(e, n) : e \in ElementIds, n \in PropertyNames}
      \cup {GetElementAttribute(e, n) : e \in ElementIds, n \in AttributeNames}
      \cup {ElementClick(e) : e \in ElementIds}
      \cup {GetElementText(e) : e \in ElementIds}
      \cup {ElementSendKeys(e, <<JStr(<<"f">>)>>) : e \in ElementIds}

\* the table of the routing: method, path below the server base, body
Row(method, path, body) == [method |-> method, path |-> path, body |-> body, ua |-> ua]

LocatorBody(l) == Some(JObj([using |-> JStr(<<l.using>>), value |-> JStr(l.value)]))

RoutingTable(cmd) ==
    LET below(rest) == <<"session">> \o session.v \o rest
    IN  CASE cmd.c = "NewSession" ->
               Row("POST", <<"session">>,
                   Some(IF cmd.params = "Spec" THEN SpecParamsJson ELSE LegacyParamsJson))
          [] cmd.c = "DeleteSession" -> Row("DELETE", <<"session">> \o session.v, None)
          [] cmd.c = "Get" -> Row("POST", below(<<"url">>), Some(JObj([url |-> JStr(cmd.url)])))
          [] cmd.c = "GetCurrentUrl" -> Row("GET", below(<<"url">>), None)
          [] cmd.c = "GetPageSource" -> Row("GET", below(<<"source">>), None)
          [] cmd.c = "FindElement" -> Row("POST", below(<<"element">>), LocatorBody(cmd.loc))
          [] cmd.c = "FindElementElement" ->
               Row("POST", below(<<"element">> \o cmd.e \o <<"element">>), LocatorBody(cmd.loc))
          [] cmd.c = "GetCookies" -> Row("GET", below(<<"cookie">>), None)
          [] cmd.c = "ExecuteScript" ->
               Row("POST",
                   below(IF legacy THEN <<"execute">> ELSE <<"execute", "sync">>),
                   Some(JObj([script |-> JStr(cmd.script), args |-> JArr(cmd.args)])))
          [] cmd.c = "GetElementAttribute" ->
               Row("GET", below(<<"element">> \o cmd.e \o <<"attribute">> \o cmd.name), None)
          [] cmd.c = "GetElementProperty" ->
               Row("GET", below(<<"element">> \o cmd.e \o <<"property">> \o cmd.name), None)
          [] cmd.c = "ElementClick" ->
               Row("POST", below(<<"element">> \o cmd.e \o <<"click">>), Some(JObj(NoKeys)))
          [] cmd.c = "GetElementText" ->
               Row("GET", below(<<"element">> \o cmd.e \o <<"text">>), None)
          [] cmd.c = "ElementSendKeys" ->
               Row("POST", below(<<"element">> \o cmd.e \o <<"value">>),
                   Some(JObj([value |-> JArr(cmd.keys)])))

\* a request is a row of the table, for some command of the session
Routed(req) ==
    LET n == Len(SessionPath)
        below == SubSeq(req.path, n + 1, Len(req.path))
        ofElement(last) == {<<"element">> \o e \o last : e \in ElementIds}
        keys == IF req.body.some THEN DOMAIN req.body.v.v ELSE {}
    IN  /\ Len(req.path) >= n
        /\ SubSeq(req.path, 1, n) = SessionPath
        /\ \/ /\ req.method = "DELETE"
              /\ below = <<>>
              /\ req.body = None
           \/ /\ req.method = "GET"
              /\ req.body = None
              /\ \/ below \in {<<"url">>, <<"source">>, <<"cookie">>}
                 \/ below \in ofElement(<<"text">>)
                 \/ \E a \in AttributeNames : below \in ofElement(<<"attribute">> \o a)
                 \/ \E a \in PropertyNames : below \in ofElement(<<"property">> \o a)
           \/ /\ req.method = "POST"
              /\ req.body.some
              /\ \/ below = <<"url">> /\ keys = {"url"}
                 \/ below = <<"element">> /\ keys = {"using", "value"}
                 \/ below \in ofElement(<<"element">>) /\ keys = {"using", "value"}
                 \/ below = (IF legacy THEN <<"execute">> ELSE <<"execute", "sync">>)
                      /\ keys = {"script", "args"}
                 \/ below \in ofElement(<<"click">>) /\ keys = {}
                 \/ below \in ofElement(<<"value">>) /\ keys = {"value"}

\* C14: wherever the caller is about to make a call, the request of every
\* command has the method, path and body of the routing table: the session
\* creations at /session, the other commands under /session/{id} once a
\* session is held, scripts at execute/sync or, under the legacy dialect,
\* at execute; and every request that an operation of a session has sent
\* is a row of the table.
C14_RoutingTable ==
    /\ pc \in {"new", "new_legacy", "ready"} =>
          \A params \in {"Spec", "Legacy"} :
             request_for(session, legacy, ua, NewSession(params))
               = RoutingTable(NewSession(params))
    /\ (session.some /\ pc = "ready") =>
          \A cmd \in SessionCommands :
             request_for(session, legacy, ua, cmd) = RoutingTable(cmd)
    /\ (session.some /\ op # "new") =>
          \A i \in 1..Len(sent) : Routed(sent[i])

\* a script was sent to its legacy endpoint
C14_Witness ==
    /\ session.some
    /\ legacy
    /\ op = "submit_direct"
    /\ Len(sent) = 1
    /\ sent[1].method = "POST"
    /\ sent[1].path = <<"session">> \o session.v \o <<"execute">>

\* the routing of a command by a client with the given fields
RouteOf(sess, leg, cmd) == <<method_for(cmd), endpoint_for(sess, leg, cmd), body_for(cmd)>>

\* commands routed at both ends of a step: the session's own path, a path
\* below it, and the path that depends on the dialect
RepeatedCommands == {DeleteSession, GetCurrentUrl, ExecuteScript(SubmitScript, <<>>)}

\* C15: once a session is held, no step of the program changes the session
\* id, the dialect or the user agent, and a command is routed after the
\* step to the method, path and body it was routed to before the step:
\* the routing of a command is the same at any two points of the session.
C15_RoutingIsStable ==
    [][session.some =>
          /\ session' = session
          /\ legacy' = legacy
          /\ ua' = ua
          /\ \A cmd \in RepeatedCommands :
                RouteOf(session', legacy', cmd) = RouteOf(session, legacy, cmd)]_vars

\* follow has routed the current-URL command twice, to the same request
C15_Witness ==
    /\ session.some
    /\ op = "follow"
    /\ Len(sent) >= 3
    /\ sent[2] = sent[3]
    /\ sent[2].path = <<"session">> \o session.v \o <<"url">>

\* C16: attr and prop return Some(s) for a success response with the
\* string s, None (a success) for null, and the malformed-response error
\* carrying the value for a value of any other JSON type.
C16_AttributeValue ==
    (op \in {"attr", "prop"} /\ pc = "returned" /\ Succeeded) =>
        /\ Value.t = "str" => ret = Ok(Some(Value.v))
        /\ Value.t = "null" => ret = Ok(None)
        /\ Value.t \notin {"str", "null"} => ret = Err(NotW3C(Value))

\* attr read an attribute that the element does not have
C16_Witness ==
    /\ op = "attr"
    /\ pc = "returned"
    /\ Succeeded
    /\ Value.t = "null"
    /\ ret = Ok(None)
    /\ handle.some

ClickRequest(req) == req.method = "POST" /\ req.path[Len(req.path)] = "click"

\* C17: follow reads the attribute "href" of the element; a null value
\* ends it with the protocol error InvalidArgument, with no current-URL
\* query and no Navigate; a string value is resolved against the current
\* URL of the session and the Navigate goes to the resolved URL; no request
\* of follow is a click.
C17_FollowReadsHref ==
    (op = "follow" /\ Len(sent) >= 1) =>
        /\ sent[1] = [method |-> "GET",
                      path   |-> SessionPath \o <<"element">> \o args.e
                                   \o <<"attribute", "href">>,
                      body   |-> None,
                      ua     |-> ua]
        /\ \A i \in 1..Len(sent) : ~ClickRequest(sent[i])
        /\ (Len(sent) = 1 /\ Succeeded /\ Value.t = "null") =>
              /\ pc = "returned"
              /\ ret.k = "Err"
              /\ ret.v.kind = "Standard"
              /\ ret.v.v.error = "InvalidArgument"
        /\ pc = "follow_current_url" =>
              /\ Len(sent) = 1
              /\ Succeeded
              /\ Value.t = "str"
              /\ args.href = Value.v
        /\ pc = "follow_goto" =>
              /\ Len(sent) = 2
              /\ ReportsBrowserUrl
              /\ UrlToString(args.url) = Resolved(srv_url, args.href)
        /\ Len(sent) >= 2 => sent[2] = CurrentUrlRequest
        /\ Len(sent) >= 3 => sent[3] = CurrentUrlRequest
        /\ Len(sent) >= 4 =>
              /\ Len(sent) = 4
              /\ sent[4] = NavigateRequest(UrlToString(args.url))
        /\ (pc = "returned" /\ is_ok(ret)) =>
              /\ Len(sent) = 4
              /\ srv_url = args.url

\* follow found no href on its element
C17_Witness ==
    /\ op = "follow"
    /\ pc = "returned"
    /\ Len(sent) = 1
    /\ Succeeded
    /\ Value.t = "null"
    /\ is_err(ret)

\* a request that carries a script and its arguments
ScriptRequest(req) ==
    /\ req.method = "POST"
    /\ req.body.some
    /\ req.body.v.t = "obj"
    /\ DOMAIN req.body.v.v = {"script", "args"}

\* C18: every script request that set_by_name, submit_direct and
\* submit_sneaky send carries each serialized element argument under
\* "ELEMENT" and not under the reserved key when the session is legacy,
\* and under the reserved key when it is not.
C18_ScriptElementsUnderDialectKey ==
    (session.some /\ op \in {"set_by_name", "submit_direct", "submit_sneaky"}) =>
        \A i \in 1..Len(sent) :
           ScriptRequest(sent[i]) =>
              LET arguments == sent[i].body.v.v["args"].v
              IN  \A j \in 1..Len(arguments) :
                     arguments[j].t = "obj" =>
                        DOMAIN arguments[j].v = IF legacy THEN {"ELEMENT"} ELSE {ELEMENT_KEY}

\* wait_for_navigation is in progress or has just ended
Waiting == args.op = "wait_for_navigation"

\* the result of the last poll
LastPoll == args.evals[Len(args.evals)]

\* C19: wait_for_navigation takes the URL of its caller for the baseline
\* and sends no query for it, or else sends one current-URL query and
\* returns its error, without a poll, when it fails; every poll but the
\* last returned the baseline URL; it returns Ok only when the last poll
\* returned another URL, and Err(e) when the last poll failed with e.
C19_WaitForNavigation ==
    Waiting =>
        /\ \A i \in 1..Len(sent) : sent[i] = CurrentUrlRequest
        /\ Len(sent) = Len(args.evals) + (IF args.given THEN 0 ELSE 1)
        /\ \A i \in 1..(Len(args.evals) - 1) : args.evals[i] = Ok(args.current)
        /\ pc = "wait_for_navigation" =>
              \A i \in 1..Len(args.evals) : args.evals[i] = Ok(args.current)
        /\ (pc = "returned" /\ args.evals = <<>>) =>
              /\ ~args.given
              /\ is_err(ret)
              /\ ret = current_url(wd)
        /\ (pc = "returned" /\ is_ok(ret)) =>
              /\ args.evals # <<>>
              /\ is_ok(LastPoll)
              /\ LastPoll.v # args.current
        /\ (pc = "returned" /\ args.evals # <<>> /\ is_err(ret)) => LastPoll = ret
        /\ (pc = "returned" /\ args.evals # <<>> /\ is_err(LastPoll)) => ret = LastPoll

\* with no URL from its caller, wait_for_navigation returned Ok after
\* more than one poll
C19_Witness ==
    /\ Waiting
    /\ ~args.given
    /\ pc = "returned"
    /\ is_ok(ret)
    /\ Len(args.evals) >= 2

\* wait_for is in progress or has just ended, on a predicate of the caller
WaitingFor == args.op = "wait_for"

\* every evaluation of the predicate so far was false
AllFalse == \A i \in 1..Len(args.evals) : args.evals[i] = FALSE

\* every poll so far succeeded with the baseline URL
AllBaseline == \A i \in 1..Len(args.evals) : args.evals[i] = Ok(args.current)

\* C20: wait_for evaluates its predicate again as long as the answer is
\* false and returns right after the first true answer: it has returned
\* exactly when the last answer is true, every answer before the last is
\* false, and while every answer is false it has not returned; in the same
\* way wait_for_navigation has not returned while every poll succeeded
\* with the baseline URL.  A loop that has not returned takes its next
\* turn: it returns, or goes on to the last turn that is followed.
C20_WaitForSpins ==
    /\ [](WaitingFor =>
            /\ args.evals # <<>>
            /\ \A i \in 1..(Len(args.evals) - 1) : args.evals[i] = FALSE
            /\ pc = "returned" <=> LastPoll = TRUE
            /\ AllFalse => pc = "wait_for")
    /\ []((Waiting /\ args.evals # <<>> /\ AllBaseline) => pc = "wait_for_navigation")
    /\ (WaitingFor /\ pc = "wait_for")
          ~> (pc = "returned" \/ (WaitingFor /\ Len(args.evals) = MaxEvaluations))

\* wait_for returned after its predicate was false at least once
C20_Witness ==
    /\ WaitingFor
    /\ pc = "returned"
    /\ Len(args.evals) >= 2
    /\ ~args.evals[1]
    /\ LastPoll

\* a session-creation request: POST to the session collection
SessionCreation(req) == req.method = "POST" /\ req.path = <<"session">>

\* C21: a command other than session creation is issued only while the
\* client holds a session id, and its path starts with session/{that id}; an
\* operation runs only on a client that holds a session id, and the release
\* of a client that holds none sends nothing.
C21_SessionCommandsNeedSession ==
    /\ \A i \in 1..Len(sent) :
          ~SessionCreation(sent[i]) =>
              /\ session.some
              /\ starts_with(sent[i].path, SessionPath)
    /\ (op \notin {"new", "drop"} \/ pc = "ready") => session.some
    /\ (op = "drop" /\ ~session.some) => (sent = <<>> /\ wd = Pending /\ pc = "dropped")

C21_Witness ==
    /\ op = "set_by_name"
    /\ pc = "returned"
    /\ session = Some(<<"s2">>)
    /\ Len(sent) = 2
    /\ sent[2].path = <<"session", "s2", "execute">>

\* the reaction is a success response to a session-creation request with a
\* string "sessionId" in the place where the dialect has it
CreatesSession(r, leg) ==
    /\ "transport" \in DOMAIN r
    /\ r.transport = "ok"
    /\ r.ctype = "json"
    /\ r.body.b = "json"
    /\ is_success(r.status)
    /\ r.body.v.t = "obj"
    /\ LET top == r.body.v.v
       IN  IF leg
           THEN "sessionId" \in DOMAIN top /\ top["sessionId"].t = "str"
           ELSE /\ "value" \in DOMAIN top
                /\ top["value"].t = "obj"
                /\ "sessionId" \in DOMAIN top["value"].v
                /\ top["value"].v["sessionId"].t = "str"

SessionIdIn(r, leg) ==
    IF leg THEN r.body.v.v["sessionId"].v ELSE r.body.v.v["value"].v["sessionId"].v

\* C22: in every step, a session id that is held stays as it is, and no
\* session-creation request is added to the request log; a session id
\* appears only in a step of Client::new whose request is a session creation
\* answered by a success response, and it is the id in that response.
C22_OneSession ==
    [][/\ session.some =>
             /\ session' = session
             /\ \A i \in 1..Len(sent') :
                   SessionCreation(sent'[i]) => (i <= Len(sent) /\ sent'[i] = sent[i])
       /\ (~session.some /\ session'.some) =>
             /\ op' = "new"
             /\ SessionCreation(sent'[Len(sent')])
             /\ CreatesSession(res', legacy')
             /\ session'.v = SessionIdIn(res', legacy')]_vars

C22_Witness ==
    /\ op = "new"
    /\ pc = "returned"
    /\ Len(sent) = 2
    /\ SessionCreation(sent[2])
    /\ session = Some(<<"s1">>)
    /\ CreatesSession(res, legacy)

\* a Navigate request, and the URL it targets
IsNavigate(req) ==
    /\ req.method = "POST"
    /\ req.path[Len(req.path)] = "url"
    /\ req.body.some

NavigateTarget(req) == req.body.v.v["url"].v

ProbeSent ==
    \E i \in 1..Len(sent) :
        IsNavigate(sent[i]) /\ NavigateTarget(sent[i]) = UrlToString(raw.cookie_url)

\* C23: when raw_client_for has ended after a Navigate to the probe URL was
\* sent, the last Navigate in its request log targets the recorded original
\* URL.
C23_LastNavigateGoesBack ==
    (RawEnded /\ ProbeSent) =>
        \E i \in 1..Len(sent) :
            /\ IsNavigate(sent[i])
            /\ NavigateTarget(sent[i]) = UrlToString(raw.old_url)
            /\ \A j \in (i + 1)..Len(sent) : ~IsNavigate(sent[j])

\* the last reaction is a response that does not declare application/json
\* and whose body can be read
NotDeclaredJson ==
    /\ "transport" \in DOMAIN res
    /\ res.transport = "ok"
    /\ res.ctype # "json"
    /\ res.body.b = "text"

\* C24: a response that declares another content type than application/json,
\* or none, makes the command return the NotJson error with the body text,
\* whatever its status.
C24_NotJsonCarriesBody ==
    NotDeclaredJson => wd = Err(NotJson(res.body.v))

\* the last exchange was a session creation under the Legacy dialect
LegacySessionCreation == op = "new" /\ legacy

\* C25: a JSON response whose top level is not an object, or, for a command
\* other than a legacy session creation, is an object without "value", makes
\* the command return the NotW3C error at every status; a legacy session
\* creation takes the top-level object as the envelope; and with a success
\* status the command returns the envelope as it is.
C25_EnvelopeUnwrapping ==
    JsonResponse =>
        /\ res.body.v.t # "obj" => (is_err(wd) /\ wd.v.kind = "NotW3C")
        /\ (/\ ~LegacySessionCreation
            /\ res.body.v.t = "obj"
            /\ "value" \notin DOMAIN res.body.v.v) =>
              (is_err(wd) /\ wd.v.kind = "NotW3C")
        /\ (LegacySessionCreation /\ res.body.v.t = "obj" /\ is_success(res.status)) =>
              wd = Ok(res.body.v)
        /\ (HasEnvelope /\ is_success(res.status)) => wd = Ok(TheEnvelope)

C25_Witness ==
    /\ op = "attr"
    /\ HasEnvelope
    /\ is_success(res.status)
    /\ TheEnvelope.t = "obj"
    /\ {"error", "message"} \subseteq DOMAIN TheEnvelope.v
    /\ wd = Ok(TheEnvelope)

\* the last reaction has a failure status and an envelope
FailureEnvelope == HasEnvelope /\ ~is_success(res.status)

\* the envelope object without its "screen" field
WithoutScreen(o) == [k \in (DOMAIN o) \ {"screen"} |-> o[k]]

\* C26: with a failure status, the command returns a protocol error only for
\* an envelope that is an object with a string "error" and a string
\* "message", and then with the envelope's message; for any other envelope
\* it returns the NotW3C error, which carries a non-object envelope as it is
\* and an object envelope without its "screen" field.
C26_FailureEnvelope ==
    FailureEnvelope =>
        /\ (is_err(wd) /\ wd.v.kind = "Standard") =>
              /\ WellFormedError
              /\ wd.v.v.message = TheEnvelope.v["message"].v
        /\ ~WellFormedError =>
              /\ is_err(wd)
              /\ wd.v.kind = "NotW3C"
              /\ wd.v.v = IF TheEnvelope.t = "obj"
                          THEN JObj(WithoutScreen(TheEnvelope.v))
                          ELSE TheEnvelope
              /\ wd.v.v.t = "obj" => "screen" \notin DOMAIN wd.v.v.v

C26_Witness ==
    /\ FailureEnvelope
    /\ TheEnvelope.t = "obj"
    /\ "screen" \in DOMAIN TheEnvelope.v
    /\ ~WellFormedError
    /\ is_err(wd)
    /\ wd.v.kind = "NotW3C"
    /\ DOMAIN wd.v.v.v = {"message"}

\* the only request of a find operation so far, its lookup, was answered by
\* a success response with a value
LookupAnswered ==
    /\ op \in {"by", "form"} \cup ScopedLookupOps
    /\ Len(sent) = 1
    /\ Succeeded

\* the find operation yielded the element with this id
Yielded(id) ==
    CASE op = "by" -> handle = Some([kind |-> "Element", e |-> id]) /\ ret = Ok(id)
      [] op = "form" -> handle = Some([kind |-> "Form", f |-> id]) /\ ret = Ok(id)
      [] op = "set_by_name" -> pc = "set_by_name_script" /\ args.field = id
      [] OTHER -> pc = "submit_click" /\ args.submit = id

\* C27: a find operation yields an element exactly when the value of the
\* response is an object with a string under the dialect's element key, the
\* element's id being that string; for any other value it returns the NotW3C
\* error that carries the value as the server sent it, and yields nothing.
C27_LookupYieldsElementUnderDialectKey ==
    LookupAnswered =>
        IF WellFormedLookup
        THEN Yielded(Value.v[IF legacy THEN "ELEMENT" ELSE ELEMENT_KEY].v)
        ELSE /\ pc = "returned"
             /\ ret = Err([kind |-> "NotW3C", v |-> Value])
             /\ op \in {"by", "form"} => ~handle.some

\* under the Legacy dialect the server answered with the spec's key only
C27_Witness ==
    /\ op = "form"
    /\ legacy
    /\ LookupAnswered
    /\ Value.t = "obj"
    /\ DOMAIN Value.v = {ELEMENT_KEY}
    /\ Value.v[ELEMENT_KEY].t = "str"
    /\ is_err(ret)
    /\ ~handle.some

\* a script request with this script
RunsScript(req, script) ==
    /\ req.method = "POST"
    /\ req.body.some
    /\ req.body.v.t = "obj"
    /\ "script" \in DOMAIN req.body.v.v
    /\ req.body.v.v["script"] = [t |-> "str", v |-> script]

\* the script that appends the hidden input
Injection ==
    <<"var h = document.createElement('input');",
      "h.setAttribute('type', 'hidden');",
      "h.setAttribute('name', arguments[1]);",
      "h.value = arguments[2];",
      "arguments[0].appendChild(h)">>

\* the script that calls the form's native submit
NativeSubmit == <<"arguments[0].submit()">>

\* the script's first argument is an element object with this id
FirstArgumentIs(req, id) ==
    LET a == req.body.v.v["args"].v
    IN  /\ Len(a) >= 1
        /\ a[1].t = "obj"
        /\ \E k \in DOMAIN a[1].v : a[1].v[k] = [t |-> "str", v |-> id]

\* C28: the first request of submit_sneaky is the injection script with the
\* form, the field and the value; submit_sneaky goes on to the submit script
\* exactly when the injection was answered with the value null or {}, and
\* otherwise returns the command's error, or NotW3C with the value, having
\* sent no submit script; the submit script is sent only after such an
\* answer, as the second request, for the same form.
C28_SneakyInjectsThenSubmits ==
    [][/\ (op' = "submit_sneaky" /\ Len(sent') = 1) =>
             /\ handle.some
             /\ handle.v.kind = "Form"
             /\ RunsScript(sent'[1], Injection)
             /\ FirstArgumentIs(sent'[1], handle.v.f)
             /\ \E field \in FieldNames, value \in FieldValues :
                   SubSeq(sent'[1].body.v.v["args"].v, 2, 3)
                     = <<[t |-> "str", v |-> field], [t |-> "str", v |-> value]>>
             /\ (pc' = "submit_sneaky_direct")
                   = (Succeeded' /\ (Value'.t = "null" \/ EmptyObject(Value')))
             /\ pc' # "submit_sneaky_direct" =>
                   /\ pc' \in {"returned", "panicked"}
                   /\ is_err(wd') => ret' = wd'
                   /\ is_ok(wd') => ret' = Err([kind |-> "NotW3C", v |-> wd'.v])
       /\ (op' = "submit_sneaky" /\ Len(sent') >= 2) =>
             /\ pc = "submit_sneaky_direct"
             /\ Len(sent') = 2
             /\ sent'[1] = sent[1]
             /\ RunsScript(sent'[2], NativeSubmit)
             /\ FirstArgumentIs(sent'[2], args.f)
             /\ FirstArgumentIs(sent'[1], args.f)]_vars

C28_Witness ==
    /\ op = "submit_sneaky"
    /\ pc = "returned"
    /\ Len(sent) = 2
    /\ RunsScript(sent[1], Injection)
    /\ RunsScript(sent[2], NativeSubmit)
    /\ is_ok(ret)

\* a character of a label, escaped for a quoted CSS attribute value
EscapedChar(c) ==
    CASE c = "\\" -> <<"\\", "\\">>
      [] c = "\"" -> <<"\\", "\"">>
      [] OTHER -> <<c>>

RECURSIVE EscapedLabel(_)
EscapedLabel(label) ==
    IF label = <<>> THEN <<>>
    ELSE EscapedChar(label[1]) \o EscapedLabel(SubSeq(label, 2, Len(label)))

\* the number of backslashes that end right before position i
RECURSIVE BackslashesBefore(_, _)
BackslashesBefore(s, i) ==
    IF i > 1 /\ s[i - 1] = "\\" THEN 1 + BackslashesBefore(s, i - 1) ELSE 0

NoUnescapedQuote(s) ==
    \A i \in 1..Len(s) : s[i] = "\"" => BackslashesBefore(s, i) % 2 = 1

\* every occurrence of the two characters a b, from the left, becomes c
RECURSIVE ReplacePair(_, _, _, _)
ReplacePair(s, a, b, c) ==
    IF Len(s) < 2 THEN s
    ELSE IF s[1] = a /\ s[2] = b
    THEN <<c>> \o ReplacePair(SubSeq(s, 3, Len(s)), a, b, c)
    ELSE <<s[1]>> \o ReplacePair(SubSeq(s, 2, Len(s)), a, b, c)

\* the two replacements undone, the later one first
Unescaped(s) == ReplacePair(ReplacePair(s, "\\", "\"", "\""), "\\", "\\", "\\")

\* the text between the first pair of quotes of the selector just looked up
LookedUpSelector == sent[1].body.v.v["value"].v

EscapedInSelector == SubSeq(LookedUpSelector, 2, 1 + ((Len(LookedUpSelector) - 3) \div 2))

\* C29: submit_using(label) looks up, scoped to the form, the selector
\* input[type=submit][value="E" i],button[type=submit][value="E" i], where E
\* is the label with each backslash doubled and each double quote preceded
\* by a backslash; E has no double quote after an even number of
\* backslashes, and the replacements undone on E give the label.
C29_SubmitUsingEscapesLabel ==
    (op = "submit_using" /\ Len(sent) >= 1) =>
        /\ ScopedLookupRequest(sent[1])
        /\ sent[1].path[Len(SessionPath) + 2] = "e1"
        /\ sent[1].body.v.v["using"] = [t |-> "str", v |-> <<"css selector">>]
        /\ LookedUpSelector
             = <<"input[type=submit][value=\"">> \o EscapedInSelector
                 \o <<"\" i],button[type=submit][value=\"">> \o EscapedInSelector
                 \o <<"\" i]">>
        /\ EscapedInSelector = EscapedLabel(args.button_label)
        /\ NoUnescapedQuote(EscapedInSelector)
        /\ Unescaped(EscapedInSelector) = args.button_label

C29_Witness ==
    /\ op = "submit_using"
    /\ pc = "returned"
    /\ Len(sent) = 2
    /\ is_ok(ret)
    /\ args.button_label = <<"\\", "\"", "a">>
    /\ EscapedInSelector = <<"\\", "\\", "\\", "\"", "a">>

\* C30: every request in the log of the operation in progress, and the
\* unsent request that raw_client_for returns, carries the User-Agent of the
\* most recent set_ua call, and none before any set_ua call (the User-Agent
\* changes only between operations, when the log is empty).
C30_RequestsCarryUserAgent ==
    /\ \A i \in 1..Len(sent) : sent[i].ua = ua
    /\ (op = "raw_client_for" /\ pc = "returned" /\ is_ok(ret)) => ret.v.ua = ua

(***************************************************************************)
(* C31: the probe URL of raw_client_for.                                   *)
(***************************************************************************)
\* raw_client_for has computed its target and its probe URL
ProbeComputed ==
    \/ pc \in {"raw_probe", "raw_probe_get", "raw_get_cookies", "raw_back", "raw_back_get"}
    \/ RawEnded /\ Len(sent) >= 2

\* the path of `u` followed by one extra segment: after a final slash (an
\* empty last segment) the segment takes the empty segment's place
OneSegmentBelow(u, segment) ==
    IF u.path[Len(u.path)] = ""
    THEN SubSeq(u.path, 1, Len(u.path) - 1) \o segment
    ELSE u.path \o segment

\* C31: in raw_client_for the target is the given URL resolved against the
\* recorded current URL, the probe URL has the target's host and the
\* target's full path followed by one extra segment, the first Navigate
\* goes to the probe, and the request produced is for the target.
C31_ProbeIsBelowTarget ==
    ProbeComputed =>
        /\ Ok(raw.url) = UrlJoin(raw.old_url, raw.arg)
        /\ raw.cookie_url.host = raw.url.host
        /\ raw.cookie_url.path = OneSegmentBelow(raw.url, PleaseGiveMeYourCookies)
        /\ \A i \in 1..Len(sent) :
              (IsNavigate(sent[i]) /\ \A j \in 1..(i - 1) : ~IsNavigate(sent[j])) =>
                  NavigateTarget(sent[i]) = UrlToString(raw.cookie_url)
        /\ (pc = "returned" /\ is_ok(ret)) => ret.v.url = raw.url

(***************************************************************************)
(* C32: the expiry, secure and httpOnly members of a reconstructed cookie. *)
(***************************************************************************)
\* the Date is the epoch n
IsEpoch(date, n) == date.pow64 = 0 /\ date.plus = n

\* the cookie that the server sent and the one that raw_client_for rebuilt
\* from it agree on the expiry and on the two flags
Reconstructed(c, cookie) ==
    /\ IF ~contains_key(c, "expiry") THEN cookie.expiry = None
       ELSE IF is_null(c["expiry"]) THEN cookie.expiry = None
       ELSE c["expiry"].t \in {"u64", "i64"} =>
               /\ cookie.expiry.some
               /\ IsEpoch(cookie.expiry.v, c["expiry"].v)
    /\ ~contains_key(c, "secure") => cookie.secure = FALSE
    /\ ~contains_key(c, "httpOnly") => cookie.httpOnly = FALSE

\* C32: a cookie whose "expiry" is an unsigned or a signed integer n is
\* reconstructed with the epoch n as its expiry, an absent or null "expiry"
\* gives no expiry, and absent "secure" and "httpOnly" give false.
C32_ExpiryIsTheEpoch ==
    (JarBuilt /\ is_ok(ret)) =>
        \A i \in 1..Len(ret.v.cookie) :
            Reconstructed(raw.cookies.v.v[i].v, ret.v.cookie[i])

(***************************************************************************)
(* C33: Element::html.                                                     *)
(***************************************************************************)
\* html has ended, by a return or by a panic
HtmlEnded == op = "html" /\ pc \in {"returned", "panicked"}

\* C33: html(inner) sends one GetElementProperty request, for innerHTML
\* when inner is true and outerHTML when it is false, and whenever the
\* command itself gave a value or an error, html returns a result: the
\* string of a string value, and an error otherwise.
C33_HtmlReturnsAResult ==
    HtmlEnded =>
        /\ Len(sent) = 1
        /\ sent[1].method = "GET"
        /\ sent[1].path = <<"session">> \o session.v
                            \o <<"element">> \o args.e \o <<"property">>
                            \o (IF args.inner THEN <<"innerHTML">> ELSE <<"outerHTML">>)
        /\ wd.k # "Panic" =>
              /\ pc = "returned"
              /\ IF is_ok(wd) /\ wd.v.t = "str"
                 THEN ret = Ok(wd.v.v)
                 ELSE is_err(ret)

(***************************************************************************)
(* C34: Form::set_by_name.                                                 *)
(***************************************************************************)
\* set_by_name has returned after it sent its script
SetByNameEnded == op = "set_by_name" /\ pc = "returned" /\ Len(sent) = 2

\* the caller holds a Form
HoldsForm == handle.some /\ handle.v.kind = "Form"

\* C34: set_by_name succeeds exactly when the response to its
\* value-assigning script is a success with the value null; any other
\* value, the empty object included, gives the malformed-response error
\* carrying the value, after the script was sent; and when set_by_name has
\* returned the caller goes on holding the same form, on which set_by_name
\* and submit can be called.
C34_SetByNameNeedsNull ==
    /\ [](SetByNameEnded =>
            /\ RunsScript(sent[2], SetValueScript)
            /\ is_ok(ret) <=> (Succeeded /\ Value.t = "null")
            /\ (Succeeded /\ Value.t # "null") => ret = Err(NotW3C(Value))
            /\ HoldsForm)
    /\ []((HoldsForm /\ pc = "ready") => (ENABLED set_by_name /\ ENABLED submit_with))
    /\ [][SetByNameEnded => (pc' = "ready" /\ handle' = handle)]_vars

\* the script's response was a success with the value {}, and set_by_name
\* returned the malformed-response error
C34_Witness ==
    /\ SetByNameEnded
    /\ Succeeded
    /\ EmptyObject(Value)
    /\ ret = Err(NotW3C(Value))
    /\ HoldsForm

(***************************************************************************)
(* C35: the negotiation of Client::new.                                    *)
(***************************************************************************)
\* the capabilities ask for pageLoadStrategy = normal and nothing else
WaitsForPageLoad(caps) ==
    /\ caps.t = "obj"
    /\ DOMAIN caps.v = {"pageLoadStrategy"}
    /\ caps.v["pageLoadStrategy"] = [t |-> "str", v |-> <<"normal">>]

\* the request log of Client::new: at most two session creations, the first
\* spec-shaped, the second legacy-shaped and sent after a recognized
\* legacy-shaped rejection of the first
NegotiationLog ==
    /\ Len(sent) <= 2
    /\ Len(sent) >= 1 =>
          /\ SpecShaped(sent[1])
          /\ DOMAIN sent[1].body.v.v["capabilities"].v = {"alwaysMatch", "firstMatch"}
          /\ WaitsForPageLoad(sent[1].body.v.v["capabilities"].v["alwaysMatch"])
          /\ sent[1].body.v.v["capabilities"].v["firstMatch"] = [t |-> "arr", v |-> <<>>]
    /\ Len(sent) = 2 =>
          /\ LegacyShaped(sent[2])
          /\ WaitsForPageLoad(sent[2].body.v.v["requiredCapabilities"])
          /\ json.some
          /\ RecognizedLegacyShape(json.v)

\* C35: Client::new sends at most two session-creation requests, and no
\* other operation sends one; the first is spec-shaped, the second
\* legacy-shaped and sent only after the first was rejected in a recognized
\* legacy shape; when the legacy attempt fails, Client::new ends without a
\* session; a returned client is Legacy exactly when its session id came
\* from the second request; and the dialect of a client that holds a
\* session never changes.
C35_Negotiation ==
    /\ [](/\ op = "new" => NegotiationLog
          /\ op # "new" => \A i \in 1..Len(sent) : ~SessionCreation(sent[i])
          /\ (op = "new" /\ pc = "new_legacy") => (Len(sent) = 1 /\ ~session.some)
          /\ (NewEnded /\ pc # "returned") => ~session.some
          /\ (op = "new" /\ pc = "returned") =>
                /\ session.some
                /\ CreatesSession(res, legacy)
                /\ legacy <=> Len(sent) = 2)
    /\ [][session.some => legacy' = legacy]_vars
    /\ [][(op = "new" /\ Len(sent) = 2) => sent' \in {sent, <<>>}]_vars

\* the legacy attempt failed: two requests, no session
C35_Witness ==
    /\ op = "new"
    /\ pc = "failed"
    /\ Len(sent) = 2
    /\ LegacyShaped(sent[2])
    /\ ~session.some
    /\ legacy

====
